---- MODULE Spec2Model ----
(***************************************************************************)
(* Palette optimisation engine of color-stuff: the fitness function, the   *)
(* neighbour generator, hill climbing, simulated annealing, the genetic    *)
(* algorithm and the colour path optimiser, as state machines.             *)
(*                                                                         *)
(* Numbers.  The sources compute in IEEE doubles through chroma-js.  The   *)
(* model uses integers in fixed point:                                     *)
(*   - luminance in 1/1000, contrast ratios and DeltaE in 1/100,           *)
(*   - palette fitness in 1/200 (so that the weights 2.0, 1.5, 1.0 and 0.5 *)
(*     stay integral), path fitness in 1/1000,                             *)
(*   - temperature and coolingRate in 1/1000.                              *)
(* -Infinity and +Infinity are the two integers NegInf and PosInf, below   *)
(* and above every finite score.  chroma-js itself (luminance, lch, deltaE)*)
(* is outside the repository: Luminance, Chroma and DeltaE are integer     *)
(* stand-ins with the same range, monotonicity and symmetry.               *)
(***************************************************************************)
EXTENDS Integers, Sequences, FiniteSets, TLC

VARIABLES
  alg,                          \* which exported function is running
  pc,                           \* "call", "loop", "fill", "exit", "done", "threw"
  options,                      \* the options object passed by the caller
  currentSolution,              \* HC, SA
  currentFitness,               \* HC, SA
  iterationsWithoutImprovement, \* HC
  bestSolution,                 \* SA
  bestFitness,                  \* SA, path
  temperature,                  \* SA
  temperatureHistory,           \* SA
  fitnessHistory,               \* HC, SA: number[]; GA: number[][]
  iteration,                    \* HC, SA, GA loop counter; path: i
  population,                   \* GA: Individual[]
  nextPopulationIndividuals,    \* GA
  bestOverallIndividual,        \* GA
  graph,                        \* path: the ColorGraph
  bestPath,                     \* path
  newPath,                      \* path: the last mutated path that was tried
  neighbourFitness,             \* SA: the fitness of the last neighbour drawn
  acceptMove,                   \* SA: whether that neighbour was accepted
  evals,                        \* number of fitness evaluations made so far
  callerInput,                  \* what the array the caller passed in holds now
  result                        \* what the call returned, NoResult before

vars == << alg, pc, options, currentSolution, currentFitness,
           iterationsWithoutImprovement, bestSolution, bestFitness,
           temperature, temperatureHistory, fitnessHistory, iteration,
           population, nextPopulationIndividuals, bestOverallIndividual,
           graph, bestPath, newPath, neighbourFitness, acceptMove, evals,
           callerInput, result >>

(***************************************************************************)
(* Numbers and small helpers                                               *)
(***************************************************************************)
NegInf == -1000000
PosInf == 1000000

isFinite(x) == x # NegInf /\ x # PosInf

Min(a, b) == IF a <= b THEN a ELSE b
Max(a, b) == IF a >= b THEN a ELSE b
Abs(a) == IF a < 0 THEN -a ELSE a

clamp(value, lo, hi) == Max(lo, Min(value, hi))

RECURSIVE SumSeq(_)
SumSeq(s) == IF s = <<>> THEN 0 ELSE Head(s) + SumSeq(Tail(s))

Range(s) == { s[i] : i \in 1..Len(s) }

NoResult == [returned |-> FALSE]

(***************************************************************************)
(* Colours.  An IColor is its rgb triple; NoRgb is an IColor object that   *)
(* has no rgb field ({} as produced by spreading undefined), Undefined is  *)
(* the JavaScript value undefined and Hole an array slot never assigned.   *)
(***************************************************************************)
NoRgb == <<"{}">>
Undefined == <<"undefined">>
Hole == <<"hole">>

HasRgb(c) == Len(c) = 3

\* { ...c }: a shallow copy; spreading undefined gives the empty object
SpreadCopy(c) == IF c = Undefined THEN NoRgb ELSE c

\* palette.map((c) => ({ ...c })): map skips holes, which stay holes
DeepCopy(palette) ==
  [ i \in 1..Len(palette) |->
      IF palette[i] = Hole THEN Hole ELSE SpreadCopy(palette[i]) ]

toIColor(r, g, b) == <<r, g, b>>

\* in-place writes that land in the array the caller passed in
WrittenArrayShared(site) == "caller"

\* the array an in-place write of the code lands in: "caller" is the array
\* the caller passed in, "own" an array the call made itself
WrittenArray(site) ==
  CASE site = "applyMove" -> "own"  \* newPalette = palette.map((c) => ({ ...c }))
    [] site = "sort" -> "own"       \* population = initialSolution.map(...)
    [] site = "crossover" -> "own"  \* offspring1 = parent1.map(...), slices, spreads
    [] site = "shuffle" -> "own"    \* remaining = colors.slice(1)
    [] site = "swap" -> "own"       \* newPath = [...path]

\* what the caller's array holds after a write of `contents` at `site`
WriteThrough(callerArray, site, contents) ==
  IF WrittenArray(site) = "caller" THEN contents ELSE callerArray

(***************************************************************************)
(* Stand-ins for chroma-js                                                 *)
(***************************************************************************)
\* relative luminance, 0..1000
Luminance(c) == (2126 * c[1] + 7152 * c[2] + 722 * c[3]) \div 2550

\* LCh chroma
Chroma(c) == (Max(c[1], Max(c[2], c[3])) - Min(c[1], Min(c[2], c[3]))) \div 2

\* CIEDE2000 difference in 1/100, 0..10000, symmetric, 0 on equal colours
DeltaE(a, b) ==
  ((Abs(a[1] - b[1]) + Abs(a[2] - b[2]) + Abs(a[3] - b[3])) * 10000) \div 765

getContrastRatio(fgColor, bgColor) ==
  LET lum1 == Luminance(fgColor)
      lum2 == Luminance(bgColor)
      brighter == Max(lum1, lum2)
      darker == Min(lum1, lum2)
  IN ((brighter + 50) * 100) \div (darker + 50)

colorDifference(colorA, colorB) == DeltaE(colorA, colorB)

(***************************************************************************)
(* The fitness function                                                    *)
(***************************************************************************)
rewardHarmony(ratio) ==
  IF ratio < 150 THEN -2
  ELSE IF ratio < 300 THEN 1
  ELSE IF ratio < 700 THEN 2
  ELSE IF ratio < 1000 THEN 1
  ELSE 0

\* the double loop over the pairs i < j, keeping the least difference
RECURSIVE MinDeltaFrom(_, _, _, _)
MinDeltaFrom(palette, i, j, minDeltaE) ==
  IF i > Len(palette) THEN minDeltaE
  ELSE IF j > Len(palette) THEN MinDeltaFrom(palette, i + 1, i + 2, minDeltaE)
  ELSE MinDeltaFrom(palette, i, j + 1,
                    Min(minDeltaE, colorDifference(palette[i], palette[j])))

\* the weighted sum, in 1/200, of a palette of five colours that have rgb
PaletteScore(primaryColor, palette) ==
  LET accentColor == palette[1]
      backgroundColor == palette[2]
      surfaceColor == palette[3]
      buttonText == palette[4]
      mainText == palette[5]
      textContrast ==
        4 * (Min(getContrastRatio(buttonText, primaryColor), 700)
             + Min(getContrastRatio(buttonText, accentColor), 700))
        + 8 * Min(getContrastRatio(mainText, surfaceColor), 700)
      uiContrast ==
        3 * (Min(getContrastRatio(primaryColor, surfaceColor), 450)
             + Min(getContrastRatio(accentColor, surfaceColor), 450))
        + 3 * Min(getContrastRatio(backgroundColor, surfaceColor), 300)
      harmony ==
        200 * (rewardHarmony(getContrastRatio(primaryColor, accentColor))
               + rewardHarmony(getContrastRatio(primaryColor, backgroundColor))
               + rewardHarmony(getContrastRatio(accentColor, backgroundColor)))
      bgLuminance == Luminance(backgroundColor)
      bgIsMonotone == backgroundColor[1] = backgroundColor[2]
                      /\ backgroundColor[2] = backgroundColor[3]
      bgChroma == Chroma(backgroundColor)
      bgQuality ==
        (IF bgLuminance < 100 \/ bgLuminance > 900 THEN -400 ELSE 0)
        + (IF bgIsMonotone \/ bgChroma < 5 THEN -200 ELSE 200)
      minDeltaE == MinDeltaFrom(palette, 1, 2, PosInf)
      separation ==
        IF minDeltaE < 1000 THEN -(1000 - minDeltaE) ELSE 200
  IN textContrast + uiContrast + harmony + bgQuality + separation

\* Array.some skips holes; an array of length 5 never has one, because a hole
\* only appears when a slot two past the end of an array is assigned and no
\* palette is shorter than four colours.
evaluatePaletteSolution(primaryColor, palette) ==
  IF Len(palette) # 5 THEN NegInf
  ELSE IF \E i \in 1..5 : ~HasRgb(palette[i]) THEN NegInf
  ELSE LET fitness == PaletteScore(primaryColor, palette)
       IN IF ~isFinite(fitness) THEN NegInf ELSE fitness

(***************************************************************************)
(* Neighbour moves (hill climbing and simulated annealing share the code)  *)
(***************************************************************************)
ChannelIndex(channel) == CASE channel = "r" -> 1 [] channel = "g" -> 2 [] channel = "b" -> 3

\* only the moves that stay within 0..255
ChannelMovesWithinRange(value, index, channel, step) ==
  (IF value + step <= 255
     THEN << [paletteIndex |-> index, channel |-> channel, change |-> step] >>
     ELSE <<>>)
  \o (IF value - step >= 0
        THEN << [paletteIndex |-> index, channel |-> channel, change |-> -step] >>
        ELSE <<>>)

\* if (v < 255) push +step; if (v > 0) push -step
ChannelMoves(value, index, channel, step) ==
  (IF value < 255
     THEN << [paletteIndex |-> index, channel |-> channel, change |-> step] >>
     ELSE <<>>)
  \o (IF value > 0
        THEN << [paletteIndex |-> index, channel |-> channel, change |-> -step] >>
        ELSE <<>>)

ColourMoves(color, index, step) ==
  ChannelMoves(color[1], index, "r", step)
  \o ChannelMoves(color[2], index, "g", step)
  \o ChannelMoves(color[3], index, "b", step)

RECURSIVE MovesFrom(_, _, _)
MovesFrom(palette, index, step) ==
  IF index > Len(palette) THEN <<>>
  ELSE ColourMoves(palette[index], index, step) \o MovesFrom(palette, index + 1, step)

computeNeighbourMoves(palette, step) == MovesFrom(palette, 1, step)

\* the channel moved by the change without clamping
applyMoveUnclamped(palette, move) ==
  LET newPalette == DeepCopy(palette)
      colorToModify == newPalette[move.paletteIndex]
      k == ChannelIndex(move.channel)
      moved == [colorToModify EXCEPT ![k] = colorToModify[k] + move.change]
  IN [newPalette EXCEPT ![move.paletteIndex] = toIColor(moved[1], moved[2], moved[3])]

applyMove(palette, move) ==
  LET newPalette == DeepCopy(palette)
      colorToModify == newPalette[move.paletteIndex]
      k == ChannelIndex(move.channel)
      moved == [colorToModify EXCEPT ![k] = clamp(colorToModify[k] + move.change, 0, 255)]
  IN [newPalette EXCEPT ![move.paletteIndex] = toIColor(moved[1], moved[2], moved[3])]

computeNeighbourMovesSA(palette, step) == MovesFrom(palette, 1, step)

applyMoveSA(palette, move) == applyMove(palette, move)

(***************************************************************************)
(* Inputs.  The sample colours and palettes the calls are made with.       *)
(***************************************************************************)
MaxIterations == 3
MaxPatience == 2

Black == <<0, 0, 0>>
White == <<255, 255, 255>>
Purple == <<128, 0, 128>>

PrimaryColors == { Purple }

\* [accent, background, surface, buttonText, mainText]
PaletteMid == << <<200, 60, 60>>, <<240, 230, 200>>, White, Black, <<20, 20, 20>> >>
PaletteGray == << <<128, 128, 128>>, <<128, 128, 128>>, White, Black, Black >>
PaletteEdge == << <<255, 0, 0>>, <<255, 255, 0>>, White, Black, Black >>
PalettePeak == << <<255, 0, 255>>, <<0, 255, 0>>, White, Black, <<0, 0, 255>> >>
PaletteNear == << <<255, 0, 255>>, <<255, 255, 0>>, White, Black, <<0, 0, 255>> >>
PaletteFour == << <<200, 60, 60>>, <<240, 230, 200>>, White, Black >>
PaletteSix == << <<200, 60, 60>>, <<240, 230, 200>>, White, Black, <<20, 20, 20>>, Purple >>
PaletteCorrupt == << <<200, 60, 60>>, NoRgb, White, Black, <<20, 20, 20>> >>

InitialPalettes ==
  { PaletteMid, PaletteGray, PaletteEdge, PaletteNear, PalettePeak, PaletteFour,
    PaletteSix, PaletteCorrupt }

NeighbourSteps == { 10, 128, 255 }

HillClimbingOptions ==
  [ primaryColor : PrimaryColors,
    initialSolution : InitialPalettes,
    maxIterations : 0..MaxIterations,
    patience : 0..MaxPatience,
    neighbourStep : NeighbourSteps ]

(***************************************************************************)
(* Hill climbing                                                           *)
(***************************************************************************)
\* !initialSolution || initialSolution.length !== 5
\* no check of the length
HCAnyLength(initialSolution) == FALSE

\* !initialSolution || initialSolution.length !== 5
HCInvalidInput(initialSolution) == Len(initialSolution) # 5

\* climbing from whatever the initial palette scored
HCNeverAborts(fitness) == FALSE

\* the test that stops the call before the loop
HCAborts(fitness) == ~isFinite(fitness)

\* the start of the older optimizer/hill-climbing.ts: any finite neighbour
\* beats it
HCStartFitnessLegacy(fitness) == NegInf

\* the value bestNeighbourFitness starts from in every iteration
HCStartFitness(fitness) == fitness

\* a scan that stops at the first neighbour strictly above the current one
RECURSIVE HCScanFirstImprovement(_, _, _, _, _)
HCScanFirstImprovement(primaryColor, solution, moves, k, best) ==
  IF k > Len(moves) THEN best
  ELSE LET neighbourSolution == applyMove(solution, moves[k])
           fitness == evaluatePaletteSolution(primaryColor, neighbourSolution)
       IN IF isFinite(fitness) /\ fitness > best.fitness
            THEN [fitness |-> fitness, solution |-> neighbourSolution, found |-> TRUE]
            ELSE HCScanFirstImprovement(primaryColor, solution, moves, k + 1, best)

\* the scan of the neighbours: the first neighbour of the highest finite
\* fitness strictly above the current one
RECURSIVE HCScan(_, _, _, _, _)
HCScan(primaryColor, solution, moves, k, best) ==
  IF k > Len(moves) THEN best
  ELSE LET neighbourSolution == applyMove(solution, moves[k])
           fitness == evaluatePaletteSolution(primaryColor, neighbourSolution)
       IN IF isFinite(fitness) /\ fitness > best.fitness
            THEN HCScan(primaryColor, solution, moves, k + 1,
                        [fitness |-> fitness,
                         solution |-> neighbourSolution,
                         found |-> TRUE])
            ELSE HCScan(primaryColor, solution, moves, k + 1, best)

HCBestNeighbour(primaryColor, solution, fitness, step) ==
  HCScan(primaryColor, solution, computeNeighbourMoves(solution, step), 1,
         [fitness |-> HCStartFitness(fitness), solution |-> <<>>, found |-> FALSE])

\* entry: validation, the copy of the initial palette and its evaluation
HCCall ==
  /\ alg = "hc" /\ pc = "call"
  /\ IF HCInvalidInput(options.initialSolution)
       THEN /\ pc' = "threw"
            /\ UNCHANGED << currentSolution, currentFitness, fitnessHistory,
                            evals, result >>
       ELSE LET solution == DeepCopy(options.initialSolution)
                fitness == evaluatePaletteSolution(options.primaryColor, solution)
            IN /\ currentSolution' = solution
               /\ currentFitness' = fitness
               /\ evals' = evals + 1
               /\ IF HCAborts(fitness)
                    THEN /\ result' = [returned |-> TRUE,
                                       solution |-> options.initialSolution,
                                       fitness |-> NegInf,
                                       iterations |-> 0,
                                       fitnessHistory |-> << NegInf >>]
                         /\ pc' = "done"
                         /\ UNCHANGED fitnessHistory
                    ELSE /\ fitnessHistory' = << fitness >>
                         /\ pc' = "loop"
                         /\ UNCHANGED result
  /\ UNCHANGED << neighbourFitness, acceptMove, callerInput,
                  alg, options, iterationsWithoutImprovement, bestSolution,
                  bestFitness, temperature, temperatureHistory, iteration,
                  population, nextPopulationIndividuals, bestOverallIndividual,
                  graph, bestPath, newPath >>

\* a limit that needs one stalled pass more than patience
PatienceExceeded(count, patience) == count > patience

\* if (iterationsWithoutImprovement >= patience) break;
PatienceExhausted(count, patience) == count >= patience

\* one pass of the for loop
HCIterate ==
  /\ alg = "hc" /\ pc = "loop"
  /\ iteration < options.maxIterations
  /\ LET best == HCBestNeighbour(options.primaryColor, currentSolution,
                                 currentFitness, options.neighbourStep)
     IN /\ evals' = evals + Len(computeNeighbourMoves(currentSolution, options.neighbourStep))
        /\ IF best.found /\ best.solution # <<>>
             THEN /\ currentSolution' = best.solution
                  /\ currentFitness' = best.fitness
                  /\ callerInput' = WriteThrough(callerInput, "applyMove", best.solution)
                  /\ fitnessHistory' = Append(fitnessHistory, best.fitness)
                  /\ iterationsWithoutImprovement' = 0
                  /\ iteration' = iteration + 1
                  /\ pc' = "loop"
             ELSE /\ iterationsWithoutImprovement' = iterationsWithoutImprovement + 1
                  /\ fitnessHistory' = Append(fitnessHistory, currentFitness)
                  /\ UNCHANGED << currentSolution, currentFitness, callerInput >>
                  /\ IF PatienceExhausted(iterationsWithoutImprovement + 1, options.patience)
                       THEN pc' = "exit" /\ iteration' = iteration
                       ELSE pc' = "loop" /\ iteration' = iteration + 1
  /\ UNCHANGED << neighbourFitness, acceptMove,
                  alg, options, bestSolution, bestFitness, temperature,
                  temperatureHistory, population, nextPopulationIndividuals,
                  bestOverallIndividual, graph, bestPath, newPath, result >>

\* the return after the loop
HCReturn ==
  /\ alg = "hc"
  /\ pc = "exit" \/ (pc = "loop" /\ iteration >= options.maxIterations)
  /\ result' = [returned |-> TRUE,
                solution |-> currentSolution,
                fitness |-> currentFitness,
                iterations |-> iteration,
                fitnessHistory |-> fitnessHistory]
  /\ pc' = "done"
  /\ UNCHANGED << neighbourFitness, acceptMove, callerInput,
                  alg, options, currentSolution, currentFitness,
                  iterationsWithoutImprovement, bestSolution, bestFitness,
                  temperature, temperatureHistory, fitnessHistory, iteration,
                  population, nextPopulationIndividuals, bestOverallIndividual,
                  graph, bestPath, newPath, evals >>

(***************************************************************************)
(* Simulated annealing                                                     *)
(***************************************************************************)
MaxIterationsSA == 2

SimulatedAnnealingOptions ==
  [ primaryColor : PrimaryColors,
    initialSolution : { PaletteMid, PalettePeak, PaletteFour, PaletteSix, PaletteCorrupt },
    maxIterations : 0..MaxIterationsSA,
    initialTemperature : { 1000, 100000 },
    coolingRate : { 500 },
    minTemperature : { 100, 400, 500, 100000 },
    neighbourStep : { 255 } ]

\* the outcomes of  Math.random() < Math.exp(deltaFitness / temperature)  for
\* deltaFitness <= 0: exp(0) = 1 is above every draw, exp(-Infinity) = 0 and
\* exp(NaN) are above none, and anything between depends on the draw
AcceptWorse(deltaFitness, temp) ==
  IF temp = 0 THEN { FALSE }
  ELSE IF deltaFitness = 0 THEN { TRUE }
  ELSE BOOLEAN

\* every neighbour left to the draw, the better ones included
AcceptedByDraw(deltaFitness, temp) == BOOLEAN

\* the outcomes of acceptMove: a better neighbour is taken, any other is
\* left to the draw
Accepted(deltaFitness, temp) ==
  IF deltaFitness > 0 THEN { TRUE } ELSE AcceptWorse(deltaFitness, temp)

\* handing back the state the walk ended in
SAReturnedCurrent ==
  [returned |-> TRUE,
   solution |-> currentSolution,
   fitness |-> currentFitness,
   iterations |-> iteration,
   fitnessHistory |-> fitnessHistory,
   temperatureHistory |-> temperatureHistory]

\* what the call hands back after the loop
SAReturned ==
  [returned |-> TRUE,
   solution |-> bestSolution,
   fitness |-> bestFitness,
   iterations |-> iteration,
   fitnessHistory |-> fitnessHistory,
   temperatureHistory |-> temperatureHistory]

\* a loop bounded by the iteration budget alone
SAContinuesByBudget(i, temp, maxIterations, minTemperature) == i < maxIterations

\* a loop bounded by the temperature alone
SAContinuesByTemperature(i, temp, maxIterations, minTemperature) == temp > minTemperature

\* the condition of the for loop
SAContinues(i, temp, maxIterations, minTemperature) ==
  i < maxIterations /\ temp > minTemperature

\* temperature *= coolingRate, the rate in thousandths
Cool(temp, coolingRate) == (temp * coolingRate) \div 1000

SACall ==
  /\ alg = "sa" /\ pc = "call"
  /\ IF Len(options.initialSolution) # 5
       THEN /\ pc' = "threw"
            /\ UNCHANGED << currentSolution, currentFitness, bestSolution,
                            bestFitness, temperature, fitnessHistory,
                            temperatureHistory, evals, result >>
       ELSE LET solution == DeepCopy(options.initialSolution)
                fitness == evaluatePaletteSolution(options.primaryColor, solution)
            IN /\ currentSolution' = solution
               /\ currentFitness' = fitness
               /\ evals' = evals + 1
               /\ IF ~isFinite(fitness)
                    THEN /\ result' = [returned |-> TRUE,
                                       solution |-> options.initialSolution,
                                       fitness |-> NegInf,
                                       iterations |-> 0,
                                       fitnessHistory |-> << NegInf >>,
                                       temperatureHistory |-> << options.initialTemperature >>]
                         /\ pc' = "done"
                         /\ UNCHANGED << bestSolution, bestFitness, temperature,
                                         fitnessHistory, temperatureHistory >>
                    ELSE /\ bestSolution' = DeepCopy(options.initialSolution)
                         /\ bestFitness' = fitness
                         /\ temperature' = options.initialTemperature
                         /\ fitnessHistory' = << fitness >>
                         /\ temperatureHistory' = << options.initialTemperature >>
                         /\ pc' = "loop"
                         /\ UNCHANGED result
  /\ UNCHANGED << neighbourFitness, acceptMove, callerInput,
                  alg, options, iterationsWithoutImprovement, iteration,
                  population, nextPopulationIndividuals, bestOverallIndividual,
                  graph, bestPath, newPath >>

\* one pass of the for loop; the two Math.random() draws are the move picked
\* and the acceptance of a neighbour that is not better
SAIterate ==
  /\ alg = "sa" /\ pc = "loop"
  /\ SAContinues(iteration, temperature, options.maxIterations, options.minTemperature)
  /\ LET neighbourMoves == computeNeighbourMovesSA(currentSolution, options.neighbourStep)
     IN IF Len(neighbourMoves) = 0
          THEN /\ pc' = "exit"
               /\ UNCHANGED << currentSolution, currentFitness, bestSolution,
                               bestFitness, temperature, temperatureHistory,
                               fitnessHistory, iteration, neighbourFitness,
                               acceptMove, evals, callerInput >>
          ELSE \E k \in 1..Len(neighbourMoves) :
                 LET randomMove == neighbourMoves[k]
                     neighbourSolution == applyMoveSA(currentSolution, randomMove)
                     fitness ==
                       evaluatePaletteSolution(options.primaryColor, neighbourSolution)
                     deltaFitness == fitness - currentFitness
                 IN /\ evals' = evals + 1
                    /\ pc' = "loop"
                    /\ iteration' = iteration + 1
                    /\ neighbourFitness' = fitness
                    /\ callerInput' = WriteThrough(callerInput, "applyMove",
                                                   neighbourSolution)
                    /\ temperatureHistory' = Append(temperatureHistory, temperature)
                    /\ temperature' = Cool(temperature, options.coolingRate)
                    /\ IF ~isFinite(fitness)
                         THEN /\ fitnessHistory' = Append(fitnessHistory, currentFitness)
                              /\ acceptMove' = FALSE
                              /\ UNCHANGED << currentSolution, currentFitness,
                                              bestSolution, bestFitness >>
                         ELSE \E accepted \in Accepted(deltaFitness, temperature) :
                                /\ acceptMove' = accepted
                                /\ IF accepted
                                     THEN /\ currentSolution' = neighbourSolution
                                          /\ currentFitness' = fitness
                                          /\ IF fitness > bestFitness
                                               THEN /\ bestFitness' = fitness
                                                    /\ bestSolution' = DeepCopy(neighbourSolution)
                                               ELSE UNCHANGED << bestSolution, bestFitness >>
                                          /\ fitnessHistory' = Append(fitnessHistory, fitness)
                                     ELSE /\ fitnessHistory' = Append(fitnessHistory, currentFitness)
                                          /\ UNCHANGED << currentSolution, currentFitness,
                                                          bestSolution, bestFitness >>
  /\ UNCHANGED << alg, options, iterationsWithoutImprovement, population,
                  nextPopulationIndividuals, bestOverallIndividual, graph,
                  bestPath, newPath, result >>

SAReturn ==
  /\ alg = "sa"
  /\ \/ pc = "exit"
     \/ /\ pc = "loop"
        /\ ~SAContinues(iteration, temperature, options.maxIterations,
                        options.minTemperature)
  /\ result' = SAReturned
  /\ pc' = "done"
  /\ UNCHANGED << neighbourFitness, acceptMove, callerInput,
                  alg, options, currentSolution, currentFitness,
                  iterationsWithoutImprovement, bestSolution, bestFitness,
                  temperature, temperatureHistory, fitnessHistory, iteration,
                  population, nextPopulationIndividuals, bestOverallIndividual,
                  graph, bestPath, newPath, evals >>

(***************************************************************************)
(* The colour path optimiser                                               *)
(***************************************************************************)
MaxPathIterations == 2

\* chroma's reading of the colour strings used below; "nope" is a string
\* chroma cannot parse, so chroma.deltaE throws on it
ColorStrings == { "#000", "#f00", "#0f0", "#00f", "#fff", "white", "nope" }

HexRgb(str) ==
  CASE str = "#000" -> <<0, 0, 0>>
    [] str = "#f00" -> <<255, 0, 0>>
    [] str = "#0f0" -> <<0, 255, 0>>
    [] str = "#00f" -> <<0, 0, 255>>
    [] str = "#fff" -> <<255, 255, 255>>
    [] str = "white" -> <<255, 255, 255>>
    [] OTHER -> NoRgb

ColorLists ==
  { <<>>,
    << "#fff" >>,
    << "#fff", "#fff" >>,
    << "#000", "#000", "#000" >>,
    << "#fff", "white" >>,
    << "#000", "#fff" >>,
    << "#000", "#f00", "#fff" >>,
    << "#f00", "#000", "#f00" >>,
    << "#000", "nope", "#fff" >>,
    << "#000", "#fff", "white", "#f00" >>,
    << "#000", "#f00", "#00f", "#fff" >>,
    << "#f00", "#fff", "#f00", "#000" >>,
    << "#000", "#f00", "#0f0", "#00f", "#fff" >> }

PathOptimizerOptions == [ colors : ColorLists, iterations : 0..MaxPathIterations ]

\* the graph as a function: node key -> (target key -> distance).  A pair on
\* which chroma.deltaE throws gets no edge.
buildColorGraph(colors) ==
  LET uniqueColors == Range(colors)
      edgesOf(sourceColor) ==
        LET targets == { t \in uniqueColors :
                           /\ t # sourceColor
                           /\ HasRgb(HexRgb(sourceColor))
                           /\ HasRgb(HexRgb(t)) }
        IN [ t \in targets |-> DeltaE(HexRgb(sourceColor), HexRgb(t)) ]
  IN IF Cardinality(uniqueColors) < 2
       THEN [ c \in uniqueColors |-> << >> ]
       ELSE [ c \in uniqueColors |-> edgesOf(c) ]

RECURSIVE ISqrtIn(_, _, _)
ISqrtIn(lo, hi, v) ==
  IF lo >= hi THEN lo
  ELSE LET mid == (lo + hi + 1) \div 2
       IN IF mid * mid <= v THEN ISqrtIn(mid, hi, v) ELSE ISqrtIn(lo, mid - 1, v)

\* floor of the square root, for 0 <= v < 2^31
ISqrt(v) == ISqrtIn(0, 46340, v)

\* in 1/1000, lower is better:  standardDeviation / mean + 0.1 / mean with
\* mean = sum / n and standardDeviation = sqrt(n * sumSquares - sum^2) / n
calculatePathFitness(path, g) ==
  IF Len(path) < 2 THEN 0
  ELSE LET n == Len(path) - 1
           hasEdge(i) == /\ path[i] \in DOMAIN g
                         /\ path[i + 1] \in DOMAIN g[path[i]]
           distances == [ i \in 1..n |-> g[path[i]][path[i + 1]] ]
       IN IF \E i \in 1..n : ~hasEdge(i) THEN PosInf
          ELSE LET sum == SumSeq(distances)
                   sumSquares == SumSeq([ i \in 1..n |-> distances[i] * distances[i] ])
               IN IF sum = 0 THEN PosInf
                  ELSE (1000 * ISqrt(n * sumSquares - sum * sum) + 10000 * n) \div sum

\* the orders shuffleArray can leave an array in: all of them
Shuffles(array) ==
  { [ i \in 1..Len(array) |-> array[perm[i]] ] : perm \in Permutations(1..Len(array)) }

generateInitialPath(colors, shuffledRemaining) ==
  IF Len(colors) < 2 THEN colors ELSE << colors[1] >> \o shuffledRemaining

\* index1 and index2 are the two randomInt(1, path.length - 1) draws that
\* differ, as positions counted from 1
mutatePath(path, index1, index2) ==
  IF Len(path) < 3 THEN path
  ELSE [ path EXCEPT ![index1] = path[index2], ![index2] = path[index1] ]

\* draws that may also land on the first position
SwapDrawsAnywhere(path) ==
  IF Len(path) < 3 THEN { <<2, 2>> }
  ELSE { d \in (1..Len(path)) \X (1..Len(path)) : d[1] # d[2] }

SwapDraws(path) ==
  IF Len(path) < 3 THEN { <<2, 2>> }
  ELSE { d \in (2..Len(path)) \X (2..Len(path)) : d[1] # d[2] }

\* handing back the unique colours instead of the list given
DegenerateResultUnique(colors) ==
  [returned |-> TRUE, path |-> << colors[1] >>, fitness |-> PosInf]

\* what is returned when the graph has fewer than two nodes
DegenerateResult(colors) == [returned |-> TRUE, path |-> colors, fitness |-> PosInf]

PathCall ==
  /\ alg = "path" /\ pc = "call"
  /\ IF Len(options.colors) < 2
       THEN /\ pc' = "threw"
            /\ UNCHANGED << graph, bestPath, bestFitness, evals, callerInput,
                            result >>
       ELSE LET g == buildColorGraph(options.colors)
            IN /\ graph' = g
               /\ IF Cardinality(DOMAIN g) < 2
                    THEN /\ result' = DegenerateResult(options.colors)
                         /\ pc' = "done"
                         /\ UNCHANGED << bestPath, bestFitness, evals, callerInput >>
                    ELSE \E shuffledRemaining \in Shuffles(Tail(options.colors)) :
                           LET path == generateInitialPath(options.colors, shuffledRemaining)
                               fitness == calculatePathFitness(path, g)
                           IN /\ bestPath' = path
                              /\ bestFitness' = fitness
                              /\ callerInput' = WriteThrough(callerInput, "shuffle", path)
                              /\ evals' = evals + 1
                              /\ IF ~isFinite(fitness)
                                   THEN /\ result' = [returned |-> TRUE,
                                                      path |-> path,
                                                      fitness |-> PosInf]
                                        /\ pc' = "done"
                                   ELSE /\ pc' = "loop"
                                        /\ UNCHANGED result
  /\ UNCHANGED << neighbourFitness, acceptMove,
                  alg, options, currentSolution, currentFitness,
                  iterationsWithoutImprovement, bestSolution, temperature,
                  temperatureHistory, fitnessHistory, iteration, population,
                  nextPopulationIndividuals, bestOverallIndividual, newPath >>

\* a mutated path is kept when it is no worse
PathKeptOnTie(newFitness, fitness) == isFinite(newFitness) /\ newFitness <= fitness

\* isFinite(newFitness) && newFitness < bestFitness
PathKept(newFitness, fitness) == isFinite(newFitness) /\ newFitness < fitness

PathIterate ==
  /\ alg = "path" /\ pc = "loop"
  /\ iteration < options.iterations
  /\ \E d \in SwapDraws(bestPath) :
       LET path == mutatePath(bestPath, d[1], d[2])
           newFitness == calculatePathFitness(path, graph)
       IN /\ newPath' = path
          /\ evals' = evals + 1
          /\ callerInput' = IF Len(bestPath) < 3 THEN callerInput
                            ELSE WriteThrough(callerInput, "swap", path)
          /\ IF PathKept(newFitness, bestFitness)
               THEN bestPath' = path /\ bestFitness' = newFitness
               ELSE UNCHANGED << bestPath, bestFitness >>
  /\ iteration' = iteration + 1
  /\ UNCHANGED << neighbourFitness, acceptMove,
                  alg, pc, options, currentSolution, currentFitness,
                  iterationsWithoutImprovement, bestSolution, temperature,
                  temperatureHistory, fitnessHistory, population,
                  nextPopulationIndividuals, bestOverallIndividual, graph,
                  result >>

PathReturn ==
  /\ alg = "path" /\ pc = "loop"
  /\ iteration >= options.iterations
  /\ result' = [returned |-> TRUE, path |-> bestPath, fitness |-> bestFitness]
  /\ pc' = "done"
  /\ UNCHANGED << neighbourFitness, acceptMove, callerInput,
                  alg, options, currentSolution, currentFitness,
                  iterationsWithoutImprovement, bestSolution, bestFitness,
                  temperature, temperatureHistory, fitnessHistory, iteration,
                  population, nextPopulationIndividuals, bestOverallIndividual,
                  graph, bestPath, newPath, evals >>

(***************************************************************************)
(* JavaScript arrays.  Positions are counted from 1 in the model.          *)
(***************************************************************************)
\* a[i]: undefined past the end and in a hole
JSGet(a, i) == IF i <= Len(a) /\ a[i] # Hole THEN a[i] ELSE Undefined

\* a[i] = v: writing past the end leaves holes in between
JSSet(a, i, v) ==
  IF i <= Len(a) THEN [a EXCEPT ![i] = v]
  ELSE [ k \in 1..i |-> IF k <= Len(a) THEN a[k] ELSE IF k = i THEN v ELSE Hole ]

\* a slice that includes position to
sliceInclusive(a, from, to) == SubSeq(a, from + 1, Min(to + 1, Len(a)))

\* a.slice(from, to) with from and to counted from 0, to exclusive
slice(a, from, to) == SubSeq(a, from + 1, Min(to, Len(a)))

\* [...a]: holes are read as undefined
Spread(a) == [ i \in 1..Len(a) |-> JSGet(a, i) ]

\* [a[i], b[i]] = [b[i], a[i]]
SwapAcross(pair, i) ==
  << JSSet(pair[1], i, JSGet(pair[2], i)), JSSet(pair[2], i, JSGet(pair[1], i)) >>

\* a[i] = a[j] alone
CopyWithin(a, i, j) == JSSet(a, i, JSGet(a, j))

\* [a[i], a[j]] = [a[j], a[i]]
SwapWithin(a, i, j) == JSSet(JSSet(a, i, JSGet(a, j)), j, JSGet(a, i))

\* positions of a sorted by descending key, equal keys in their old order:
\* Array.sort with (a, b) => key(b) - key(a), where -Infinity - -Infinity
\* is NaN and counts as equal
SortDescending(key) ==
  LET n == Len(key)
      place(i) == 1 + Cardinality({ j \in 1..n :
                                      key[j] > key[i] \/ (key[j] = key[i] /\ j < i) })
  IN [ p \in 1..n |-> CHOOSE i \in 1..n : place(i) = p ]

(***************************************************************************)
(* Genetic algorithm: parent selection                                     *)
(***************************************************************************)
FitnessOf(pop) == [ i \in 1..Len(pop) |-> pop[i].fitness ]

ValidIndices(pop) == { i \in 1..Len(pop) : isFinite(pop[i].fitness) }

\* scores counted down to 0: the worst valid individual gets nothing
RankScoresFromZero(pop) ==
  LET order == SortDescending(FitnessOf(pop))
      numValid == Cardinality(ValidIndices(pop))
  IN [ k \in 1..Len(pop) |->
         IF k <= numValid THEN << order[k], numValid - k >>
         ELSE << order[k], 0 >> ]

\* rankScores: the valid individuals best first with scores numValid..1, then
\* the invalid ones with score 0, each as << population index, score >>
RankScores(pop) ==
  LET order == SortDescending(FitnessOf(pop))
      numValid == Cardinality(ValidIndices(pop))
  IN [ k \in 1..Len(pop) |->
         IF k <= numValid THEN << order[k], numValid - (k - 1) >>
         ELSE << order[k], 0 >> ]

TotalScore(pop) == SumSeq([ k \in 1..Len(pop) |-> RankScores(pop)[k][2] ])

\* the roulette wheel: the first item whose cumulative score reaches the
\* pick; the pick Math.random() * totalScore is given in halves
Roulette(pop, pick) ==
  LET scores == RankScores(pop)
      cumulative(k) == SumSeq([ m \in 1..k |-> scores[m][2] ])
      hits == { k \in 1..Len(pop) : 2 * cumulative(k) >= pick }
  IN IF hits = {} THEN scores[Len(pop)][1]
     ELSE scores[CHOOSE k \in hits : \A m \in hits : k <= m][1]

\* the two picks as the wheel gives them, the same position twice included
SelectedParentsAsPicked(pop) ==
  LET popSize == Len(pop)
  IN IF Cardinality(ValidIndices(pop)) < 2
       THEN (1..popSize) \X (1..popSize)
       ELSE { << Roulette(pop, pick1), Roulette(pop, pick2) >> :
                pick1 \in 0..(2 * TotalScore(pop) - 1),
                pick2 \in 0..(2 * TotalScore(pop) - 1) }

\* the pairs of population positions selectParentsByRank can return
SelectedParents(pop) ==
  LET popSize == Len(pop)
      next(i) == (i % popSize) + 1
  IN IF Cardinality(ValidIndices(pop)) < 2
       THEN { d \in (1..popSize) \X (1..popSize) : d[1] # d[2] }
       ELSE { << Roulette(pop, pick1),
                 IF Roulette(pop, pick2) = Roulette(pop, pick1)
                   THEN next(Roulette(pop, pick1))
                   ELSE Roulette(pop, pick2) >> :
                pick1 \in 0..(2 * TotalScore(pop) - 1),
                pick2 \in 0..(2 * TotalScore(pop) - 1) }

(***************************************************************************)
(* Genetic algorithm: crossover                                            *)
(***************************************************************************)
CrossoverOperations == { "one-point", "two-point", "block", "uniform", "shuffle" }

RECURSIVE UniformSwap(_, _, _, _)
UniformSwap(pair, mask, i, paletteLength) ==
  IF i > paletteLength THEN pair
  ELSE UniformSwap(IF mask[i] THEN SwapAcross(pair, i) ELSE pair,
                   mask, i + 1, paletteLength)

RECURSIVE BlockCopy(_, _, _, _, _)
BlockCopy(temp, block1, block2, start, i) ==
  IF i > Len(block1) THEN temp
  ELSE BlockCopy(<< JSSet(temp[1], start + i, JSGet(block2, i)),
                    JSSet(temp[2], start + i, JSGet(block1, i)) >>,
                 block1, block2, start, i + 1)

\* the Fisher-Yates pass over a section; js[i] in 0..i is the draw made for
\* position i (counted from 0)
RECURSIVE FisherYates(_, _, _)
FisherYates(section, js, i) ==
  IF i < 1 THEN section
  ELSE FisherYates(SwapWithin(section, i + 1, js[i] + 1), js, i - 1)

ShuffleDraws(n) ==
  IF n < 2 THEN { <<>> }
  ELSE { js \in [ 1..(n - 1) -> 0..(n - 1) ] : \A i \in 1..(n - 1) : js[i] <= i }

\* the draws of one crossover: whether it happens and the operator's cuts
CrossoverDraws(parent1, parent2, crossoverProbability, crossoverOperation) ==
  LET paletteLength == Len(parent1)
      none == IF crossoverProbability < 100 \/ paletteLength <= 1
                THEN { [cross |-> FALSE] } ELSE {}
      some ==
        IF crossoverProbability <= 0 \/ paletteLength <= 1 THEN {}
        ELSE CASE crossoverOperation = "uniform" ->
                    { [cross |-> TRUE, mask |-> m] : m \in [ 1..paletteLength -> BOOLEAN ] }
               [] crossoverOperation = "one-point" ->
                    { [cross |-> TRUE, point |-> pt] : pt \in 1..(paletteLength - 1) }
               [] crossoverOperation = "two-point" ->
                    IF paletteLength < 3 THEN { [cross |-> FALSE] }
                    ELSE { [cross |-> TRUE, point1 |-> d[1], point2 |-> d[2]] :
                             d \in { e \in (1..(paletteLength - 2)) \X (2..(paletteLength - 1)) :
                                        e[2] > e[1] } }
               [] crossoverOperation = "block" ->
                    { [cross |-> TRUE, start |-> d[1], end |-> d[2]] :
                        d \in { e \in (0..(paletteLength - 1)) \X (0..(paletteLength - 1)) :
                                   e[2] >= e[1] } }
               [] crossoverOperation = "shuffle" ->
                    IF paletteLength < 3 THEN { [cross |-> FALSE] }
                    ELSE UNION {
                           { [cross |-> TRUE, point1 |-> d[1], point2 |-> d[2],
                              js1 |-> j1, js2 |-> j2] :
                               j1 \in ShuffleDraws(Len(slice(parent1, d[1], d[2] + 1))),
                               j2 \in ShuffleDraws(Len(slice(parent2, d[1], d[2] + 1))) } :
                           d \in { e \in (0..(paletteLength - 2)) \X (1..(paletteLength - 1)) :
                                      e[2] > e[1] } }
  IN none \cup some

\* the two offspring before mutation
Crossover(parent1, parent2, crossoverOperation, draw) ==
  LET paletteLength == Len(parent1)
      offspring1 == DeepCopy(parent1)
      offspring2 == DeepCopy(parent2)
  IN IF ~draw.cross THEN << offspring1, offspring2 >>
     ELSE CASE crossoverOperation = "uniform" ->
                 UniformSwap(<< offspring1, offspring2 >>, draw.mask, 1, paletteLength)
            [] crossoverOperation = "one-point" ->
                 LET tail1 == slice(offspring1, draw.point, Len(offspring1))
                     tail2 == slice(offspring2, draw.point, Len(offspring2))
                 IN << Spread(slice(offspring1, 0, draw.point)) \o Spread(tail2),
                       Spread(slice(offspring2, 0, draw.point)) \o Spread(tail1) >>
            [] crossoverOperation = "two-point" ->
                 LET middle1 == slice(offspring1, draw.point1, draw.point2)
                     middle2 == slice(offspring2, draw.point1, draw.point2)
                 IN << Spread(slice(offspring1, 0, draw.point1)) \o Spread(middle2)
                         \o Spread(slice(offspring1, draw.point2, Len(offspring1))),
                       Spread(slice(offspring2, 0, draw.point1)) \o Spread(middle1)
                         \o Spread(slice(offspring2, draw.point2, Len(offspring2))) >>
            [] crossoverOperation = "block" ->
                 LET block1 == slice(offspring1, draw.start, draw.end + 1)
                     block2 == slice(offspring2, draw.start, draw.end + 1)
                 IN BlockCopy(<< Spread(offspring1), Spread(offspring2) >>,
                              block1, block2, draw.start, 1)
            [] crossoverOperation = "shuffle" ->
                 LET section1 == slice(parent1, draw.point1, draw.point2 + 1)
                     section2 == slice(parent2, draw.point1, draw.point2 + 1)
                     shuffled1 == FisherYates(section1, draw.js1, Len(section1) - 1)
                     shuffled2 == FisherYates(section2, draw.js2, Len(section2) - 1)
                 IN << Spread(slice(parent1, 0, draw.point1)) \o Spread(shuffled1)
                         \o Spread(slice(parent1, draw.point2 + 1, Len(parent1))),
                       Spread(slice(parent2, 0, draw.point1)) \o Spread(shuffled2)
                         \o Spread(slice(parent2, draw.point2 + 1, Len(parent2))) >>

(***************************************************************************)
(* Genetic algorithm: mutation                                             *)
(***************************************************************************)
NoMutation == [mutate |-> FALSE]

\* the draws for one gene that is mutated: the 70% branch with its three
\* randomInt(-mutationAmount, mutationAmount) values, or the 30% branch with
\* the channel (0, 1, 2) and its new value
GeneDraws(mutationAmount) ==
  { [mutate |-> TRUE, small |-> TRUE, delta |-> d] :
      d \in { << mutationAmount, -mutationAmount, 0 >>,
              << -mutationAmount, mutationAmount, mutationAmount >> } }
  \cup { [mutate |-> TRUE, small |-> FALSE, channel |-> d[1], value |-> d[2]] :
           d \in { << 0, 0 >>, << 1, 128 >>, << 2, 255 >> } }

\* the draws for the two offspring of one call: no gene mutated, or one gene
\* of one of the two
MutationDraws(offspring1, offspring2, mutationProbability, mutationAmount) ==
  LET none1 == [ i \in 1..Len(offspring1) |-> NoMutation ]
      none2 == [ i \in 1..Len(offspring2) |-> NoMutation ]
  IN { << none1, none2 >> }
     \cup (IF mutationProbability <= 0 THEN {}
           ELSE { << [none1 EXCEPT ![i] = d], none2 >> :
                    i \in 1..Len(offspring1), d \in GeneDraws(mutationAmount) }
                \cup
                { << none1, [none2 EXCEPT ![i] = d] >> :
                    i \in 1..Len(offspring2), d \in GeneDraws(mutationAmount) })

\* the mutation without the clamp of the small adjustment
MutateColorUnclamped(color, draw) ==
  IF draw.small
    THEN toIColor(color[1] + draw.delta[1], color[2] + draw.delta[2],
                  color[3] + draw.delta[3])
    ELSE toIColor(IF draw.channel = 0 THEN draw.value ELSE color[1],
                  IF draw.channel = 1 THEN draw.value ELSE color[2],
                  IF draw.channel = 0 \/ draw.channel = 1 THEN color[3] ELSE draw.value)

MutateColor(color, draw) ==
  IF draw.small
    THEN toIColor(clamp(color[1] + draw.delta[1], 0, 255),
                  clamp(color[2] + draw.delta[2], 0, 255),
                  clamp(color[3] + draw.delta[3], 0, 255))
    ELSE toIColor(IF draw.channel = 0 THEN draw.value ELSE color[1],
                  IF draw.channel = 1 THEN draw.value ELSE color[2],
                  IF draw.channel = 0 \/ draw.channel = 1 THEN color[3] ELSE draw.value)

\* reading color.rgb of undefined, or destructuring the missing rgb of {},
\* is a TypeError
MutationThrows(palette, draws) ==
  \E i \in 1..Len(palette) :
    palette[i] # Hole /\ draws[i].mutate /\ ~HasRgb(palette[i])

mutatePalette(palette, draws) ==
  [ i \in 1..Len(palette) |->
      IF palette[i] = Hole THEN Hole
      ELSE IF draws[i].mutate THEN MutateColor(palette[i], draws[i])
      ELSE palette[i] ]

(***************************************************************************)
(* Genetic algorithm: the generations                                      *)
(***************************************************************************)
MaxGenerations == 2
MaxElitism == 2

PaletteMidB == << <<200, 60, 60>>, <<100, 180, 220>>, White, Black, <<60, 0, 90>> >>
PaletteMidC == << <<30, 90, 200>>, <<240, 230, 200>>, White, Black, <<20, 20, 20>> >>
PaletteDark == << Black, Black, Black, Black, Black >>
\* two poor palettes whose halves make a good one
PaletteHalfA == << <<200, 60, 60>>, <<100, 180, 220>>, White, White, White >>
PaletteHalfB == << Black, Black, Black, Black, <<60, 0, 90>> >>
PalettePlainA == << Purple, Purple, White, White, Black >>
PalettePlainB == << Purple, White, White, Black, Black >>
PaletteFourB == << <<30, 90, 200>>, <<240, 230, 200>>, Black, White >>

Populations ==
  { <<>>,
    << PaletteMid >>,
    << PaletteMid, PaletteMidB >>,
    << PaletteCorrupt, PaletteMid >>,
    << PaletteFour, PaletteFourB >>,
    << PaletteMid, PaletteFour >>,
    << PaletteSix, PaletteFour >> }

GeneticAlgorithmOptions ==
  [ primaryColor : PrimaryColors,
    initialSolution : Populations,
    maxIterations : 0..MaxGenerations,
    crossoverProbability : { 70 },
    mutationProbability : { 0 },
    mutationAmount : { 20 },
    thresholdFitness : { 12000, 18000 },
    crossoverOperation : CrossoverOperations \ { "shuffle" },
    elitismCount : 0..MaxElitism ]
  \cup
  [ primaryColor : PrimaryColors,
    initialSolution : { << PaletteMid, PaletteMidB, PaletteMidC >> },
    maxIterations : 0..MaxGenerations,
    crossoverProbability : { 70 },
    mutationProbability : { 0 },
    mutationAmount : { 20 },
    thresholdFitness : { 18000 },
    crossoverOperation : { "one-point" },
    elitismCount : 1..MaxElitism ]
  \cup
  [ primaryColor : PrimaryColors,
    initialSolution : { << PaletteMid, PaletteMidB >>, << PaletteCorrupt, PaletteMid >>,
                        << PaletteMid, PaletteMidB, PaletteMidC >>,
                        << PaletteCorrupt, PaletteMid, PaletteMidB >> },
    maxIterations : { 1 },
    crossoverProbability : { 70 },
    mutationProbability : { 0 },
    mutationAmount : { 20 },
    thresholdFitness : { 18000 },
    crossoverOperation : { "one-point" },
    elitismCount : { 5 } ]
  \cup
  [ primaryColor : PrimaryColors,
    initialSolution : { << PalettePlainA, PalettePlainB >> },
    maxIterations : { 1 },
    crossoverProbability : { 100 },
    mutationProbability : { 0 },
    mutationAmount : { 20 },
    thresholdFitness : { 18000 },
    crossoverOperation : { "shuffle" },
    elitismCount : { 1 } ]
  \cup
  [ primaryColor : PrimaryColors,
    initialSolution : { << PaletteMid, PaletteMidB >>, << PaletteCorrupt, PaletteMid >> },
    maxIterations : { 2 },
    crossoverProbability : { 0 },
    mutationProbability : { 10 },
    mutationAmount : { 20 },
    thresholdFitness : { 18000 },
    crossoverOperation : { "uniform" },
    elitismCount : { 1 } ]
  \cup
  [ primaryColor : PrimaryColors,
    initialSolution : { << PaletteMid, PaletteMidB >>, << PaletteDark, PaletteMidB >>,
                        << PaletteHalfA, PaletteHalfB >> },
    maxIterations : { 2 },
    crossoverProbability : { 70 },
    mutationProbability : { 0 },
    mutationAmount : { 20 },
    thresholdFitness : { 12000, 13500 },
    crossoverOperation : { "one-point" },
    elitismCount : { 1 } ]

Individual(solution, fitness) == [solution |-> solution, fitness |-> fitness]

\* the best of the population at hand, whatever was best before
RECURSIVE BestOfPopulation(_, _, _)
BestOfPopulation(best, pop, i) ==
  IF i > Len(pop) THEN best
  ELSE BestOfPopulation(IF i = 1 \/ (isFinite(pop[i].fitness) /\ pop[i].fitness > best.fitness)
                          THEN Individual(DeepCopy(pop[i].solution), pop[i].fitness)
                          ELSE best,
                        pop, i + 1)

\* a best that takes the better fitness and keeps the palette it had
RECURSIVE UpdateBestFitnessOnly(_, _, _)
UpdateBestFitnessOnly(best, pop, i) ==
  IF i > Len(pop) THEN best
  ELSE UpdateBestFitnessOnly(IF isFinite(pop[i].fitness) /\ pop[i].fitness > best.fitness
                               THEN Individual(best.solution, pop[i].fitness)
                               ELSE best,
                             pop, i + 1)

\* population.forEach(...) replacing the best by a copy of every individual
\* of finite fitness strictly above it
RECURSIVE UpdateBest(_, _, _)
UpdateBest(best, pop, i) ==
  IF i > Len(pop) THEN best
  ELSE UpdateBest(IF isFinite(pop[i].fitness) /\ pop[i].fitness > best.fitness
                    THEN Individual(DeepCopy(pop[i].solution), pop[i].fitness)
                    ELSE best,
                  pop, i + 1)

\* "Find initial best": the first individual whatever its fitness, then as above
InitialBest(pop) ==
  UpdateBest(Individual(DeepCopy(pop[1].solution), pop[1].fitness), pop, 2)

\* avgFitness >= thresholdFitness over the finite evaluations
AverageReached(evaluations, thresholdFitness) ==
  LET validEvals == SelectSeq(evaluations, isFinite)
  IN Len(validEvals) > 0 /\ SumSeq(validEvals) >= thresholdFitness * Len(validEvals)

\* the best compared with the threshold itself
BestReachedPlain(best, thresholdFitness) ==
  isFinite(best.fitness) /\ best.fitness >= thresholdFitness

\* bestOverallIndividual.fitness >= thresholdFitness * 1.1
BestReached(best, thresholdFitness) ==
  isFinite(best.fitness) /\ 10 * best.fitness >= 11 * thresholdFitness

\* the population after population.sort(...)
SortedPopulation(pop) ==
  LET order == SortDescending(FitnessOf(pop))
  IN [ k \in 1..Len(pop) |-> pop[order[k]] ]

\* the head of the sorted population carried over whatever its fitness
RECURSIVE ElitesAnyFitness(_, _, _)
ElitesAnyFitness(sorted, count, i) ==
  IF i > count THEN <<>>
  ELSE << Individual(DeepCopy(sorted[i].solution), sorted[i].fitness) >>
       \o ElitesAnyFitness(sorted, count, i + 1)

\* the elites carried over from the sorted population
RECURSIVE Elites(_, _, _)
Elites(sorted, count, i) ==
  IF i > count THEN <<>>
  ELSE (IF isFinite(sorted[i].fitness)
          THEN << Individual(DeepCopy(sorted[i].solution), sorted[i].fitness) >>
          ELSE <<>>)
       \o Elites(sorted, count, i + 1)

GACall ==
  /\ alg = "ga" /\ pc = "call"
  /\ IF Len(options.initialSolution) < 2
       THEN /\ pc' = "threw"
            /\ UNCHANGED << population, bestOverallIndividual, evals >>
       ELSE LET pop == [ i \in 1..Len(options.initialSolution) |->
                          Individual(DeepCopy(options.initialSolution[i]),
                                     evaluatePaletteSolution(options.primaryColor,
                                                             options.initialSolution[i])) ]
            IN /\ population' = pop
               /\ evals' = evals + Len(pop)
               /\ bestOverallIndividual' = InitialBest(pop)
               /\ pc' = "loop"
  /\ UNCHANGED << neighbourFitness, acceptMove, callerInput,
                  alg, options, currentSolution, currentFitness,
                  iterationsWithoutImprovement, bestSolution, bestFitness,
                  temperature, temperatureHistory, fitnessHistory, iteration,
                  nextPopulationIndividuals, graph, bestPath, newPath, result >>

\* the head of one pass of the for loop: history, best so far, the two
\* termination tests and the elites
GAGeneration ==
  /\ alg = "ga" /\ pc = "loop"
  /\ iteration < options.maxIterations
  /\ LET currentEvals == FitnessOf(population)
         best == UpdateBest(bestOverallIndividual, population, 1)
         populationSize == Len(options.initialSolution)
         sorted == SortedPopulation(population)
     IN /\ fitnessHistory' = Append(fitnessHistory, currentEvals)
        /\ bestOverallIndividual' = best
        /\ IF \/ AverageReached(currentEvals, options.thresholdFitness)
              \/ BestReached(best, options.thresholdFitness)
             THEN /\ pc' = "exit"
                  /\ UNCHANGED << population, nextPopulationIndividuals, callerInput >>
             ELSE /\ pc' = "fill"
                  /\ IF options.elitismCount > 0
                       THEN /\ population' = sorted
                            /\ callerInput' =
                                 WriteThrough(callerInput, "sort",
                                              [ i \in 1..Len(sorted) |-> sorted[i].solution ])
                            /\ nextPopulationIndividuals' =
                                 Elites(sorted, Min(options.elitismCount, populationSize), 1)
                       ELSE /\ nextPopulationIndividuals' = <<>>
                            /\ UNCHANGED << population, callerInput >>
  /\ UNCHANGED << neighbourFitness, acceptMove,
                  alg, options, currentSolution, currentFitness,
                  iterationsWithoutImprovement, bestSolution, bestFitness,
                  temperature, temperatureHistory, iteration, graph, bestPath,
                  newPath, evals, result >>

\* pushing both offspring whatever room is left
PushBoth(next, first, second, populationSize) == next \o << first, second >>

\* the first offspring is pushed, the second only while there is room
PushOffspring(next, first, second, populationSize) ==
  LET pushed == Append(next, first)
  IN IF Len(pushed) < populationSize THEN Append(pushed, second) ELSE pushed

\* an offspring that keeps the fitness it had before its mutation
OffspringScoredBeforeMutation(primaryColor, crossedPalette, draws) ==
  Individual(mutatePalette(crossedPalette, draws),
             evaluatePaletteSolution(primaryColor, crossedPalette))

\* an offspring as it is pushed: the mutated palette with its evaluation
Offspring(primaryColor, crossedPalette, draws) ==
  Individual(mutatePalette(crossedPalette, draws),
             evaluatePaletteSolution(primaryColor, mutatePalette(crossedPalette, draws)))

\* one pass of the while loop: two parents, their two offspring, and as many
\* of the offspring as still fit
GAOffspring ==
  /\ alg = "ga" /\ pc = "fill"
  /\ Len(nextPopulationIndividuals) < Len(options.initialSolution)
  /\ \E parents \in SelectedParents(population) :
       LET parent1 == population[parents[1]].solution
           parent2 == population[parents[2]].solution
       IN \E draw \in CrossoverDraws(parent1, parent2, options.crossoverProbability,
                                     options.crossoverOperation) :
            \E crossed \in { Crossover(parent1, parent2, options.crossoverOperation, draw) } :
               \E draws \in MutationDraws(crossed[1], crossed[2],
                                          options.mutationProbability,
                                          options.mutationAmount) :
                 IF MutationThrows(crossed[1], draws[1]) \/ MutationThrows(crossed[2], draws[2])
                   THEN /\ pc' = "threw"
                        /\ UNCHANGED << nextPopulationIndividuals, evals, callerInput >>
                   ELSE LET first == Offspring(options.primaryColor, crossed[1], draws[1])
                            second == Offspring(options.primaryColor, crossed[2], draws[2])
                        IN /\ nextPopulationIndividuals' =
                                PushOffspring(nextPopulationIndividuals, first, second,
                                              Len(options.initialSolution))
                           /\ evals' = evals + 2
                           /\ callerInput' =
                                WriteThrough(callerInput, "crossover",
                                             [callerInput EXCEPT ![parents[1]] = first.solution,
                                                                 ![parents[2]] = second.solution])
                           /\ pc' = "fill"
  /\ UNCHANGED << neighbourFitness, acceptMove,
                  alg, options, currentSolution, currentFitness,
                  iterationsWithoutImprovement, bestSolution, bestFitness,
                  temperature, temperatureHistory, fitnessHistory, iteration,
                  population, bestOverallIndividual, graph, bestPath, newPath,
                  result >>

\* the end of a pass of the for loop: the new generation replaces the old
GAReplace ==
  /\ alg = "ga" /\ pc = "fill"
  /\ Len(nextPopulationIndividuals) >= Len(options.initialSolution)
  /\ population' = nextPopulationIndividuals
  /\ iteration' = iteration + 1
  /\ pc' = "loop"
  /\ UNCHANGED << neighbourFitness, acceptMove, callerInput,
                  alg, options, currentSolution, currentFitness,
                  iterationsWithoutImprovement, bestSolution, bestFitness,
                  temperature, temperatureHistory, fitnessHistory,
                  nextPopulationIndividuals, bestOverallIndividual, graph,
                  bestPath, newPath, evals, result >>

\* the last update of the best and the return
GAReturn ==
  /\ alg = "ga"
  /\ pc = "exit" \/ (pc = "loop" /\ iteration >= options.maxIterations)
  /\ LET best == UpdateBest(bestOverallIndividual, population, 1)
     IN /\ bestOverallIndividual' = best
        /\ result' = [returned |-> TRUE,
                      population |-> [ i \in 1..Len(population) |-> population[i].solution ],
                      bestPalette |-> best.solution,
                      bestFitness |-> best.fitness,
                      iterations |-> iteration,
                      fitnessHistory |-> fitnessHistory]
  /\ pc' = "done"
  /\ UNCHANGED << neighbourFitness, acceptMove, callerInput,
                  alg, options, currentSolution, currentFitness,
                  iterationsWithoutImprovement, bestSolution, bestFitness,
                  temperature, temperatureHistory, fitnessHistory, iteration,
                  population, nextPopulationIndividuals, graph, bestPath,
                  newPath, evals >>

(***************************************************************************)
(* Crossover on its own: performCrossoverAndMutation applied once to a     *)
(* pair of parents, the mutation switched off                              *)
(***************************************************************************)
PaletteRamp == << <<10, 0, 0>>, <<20, 0, 0>>, <<30, 0, 0>>, <<40, 0, 0>>, <<50, 0, 0>> >>
PaletteRampB == << <<0, 10, 0>>, <<0, 20, 0>>, <<0, 30, 0>>, <<0, 40, 0>>, <<0, 50, 0>> >>

ParentPairs ==
  { << PaletteRamp, PaletteRampB >>, << PalettePlainA, PalettePlainB >>,
    << PaletteMid, PaletteMidB >> }

CrossoverOptions ==
  { [ parent1 |-> parents[1],
      parent2 |-> parents[2],
      crossoverProbability |-> 70,
      mutationProbability |-> 0,
      mutationAmount |-> 20,
      crossoverOperation |-> crossoverOperation ] :
      parents \in ParentPairs, crossoverOperation \in CrossoverOperations }

CrossoverCall ==
  /\ alg = "cross" /\ pc = "call"
  /\ \E draw \in CrossoverDraws(options.parent1, options.parent2,
                                options.crossoverProbability,
                                options.crossoverOperation) :
       \E crossed \in { Crossover(options.parent1, options.parent2,
                                  options.crossoverOperation, draw) } :
         \E draws \in MutationDraws(crossed[1], crossed[2],
                                    options.mutationProbability,
                                    options.mutationAmount) :
           result' = [returned |-> TRUE,
                      crossed |-> draw.cross,
                      offspring1 |-> mutatePalette(crossed[1], draws[1]),
                      offspring2 |-> mutatePalette(crossed[2], draws[2])]
  /\ pc' = "done"
  /\ UNCHANGED << neighbourFitness, acceptMove, callerInput,
                  alg, options, currentSolution, currentFitness,
                  iterationsWithoutImprovement, bestSolution, bestFitness,
                  temperature, temperatureHistory, fitnessHistory, iteration,
                  population, nextPopulationIndividuals, bestOverallIndividual,
                  graph, bestPath, newPath, evals >>

(***************************************************************************)
(* The calls                                                               *)
(***************************************************************************)
Idle ==
  /\ pc = "call"
  /\ currentSolution = <<>> /\ currentFitness = 0
  /\ iterationsWithoutImprovement = 0
  /\ bestSolution = <<>> /\ bestFitness = 0
  /\ temperature = 0 /\ temperatureHistory = <<>>
  /\ fitnessHistory = <<>> /\ iteration = 0
  /\ population = <<>> /\ nextPopulationIndividuals = <<>>
  /\ bestOverallIndividual = Individual(<<>>, 0)
  /\ graph = <<>> /\ bestPath = <<>> /\ newPath = <<>>
  /\ neighbourFitness = 0 /\ acceptMove = FALSE
  /\ evals = 0
  /\ result = NoResult

InitHC ==
  /\ Idle /\ alg = "hc" /\ options \in HillClimbingOptions
  /\ callerInput = options.initialSolution
InitSA ==
  /\ Idle /\ alg = "sa" /\ options \in SimulatedAnnealingOptions
  /\ callerInput = options.initialSolution
InitGA ==
  /\ Idle /\ alg = "ga" /\ options \in GeneticAlgorithmOptions
  /\ callerInput = options.initialSolution
InitPath ==
  /\ Idle /\ alg = "path" /\ options \in PathOptimizerOptions
  /\ callerInput = options.colors
InitCross ==
  /\ Idle /\ alg = "cross" /\ options \in CrossoverOptions
  /\ callerInput = << options.parent1, options.parent2 >>

NextHC == HCCall \/ HCIterate \/ HCReturn
NextSA == SACall \/ SAIterate \/ SAReturn
NextGA == GACall \/ GAGeneration \/ GAOffspring \/ GAReplace \/ GAReturn
NextPath == PathCall \/ PathIterate \/ PathReturn
NextCross == CrossoverCall

Init == InitHC \/ InitSA \/ InitGA \/ InitPath

Next == NextHC \/ NextSA \/ NextGA \/ NextPath

\* every optimiser, one call per behaviour
Spec == Init /\ [][Next]_vars

SpecHC == InitHC /\ [][NextHC]_vars
SpecSA == InitSA /\ [][NextSA]_vars
SpecGA == InitGA /\ [][NextGA]_vars
SpecPath == InitPath /\ [][NextPath]_vars

\* one crossover of two parents
SpecCross == InitCross /\ [][NextCross]_vars

(***************************************************************************)
(* Properties                                                              *)
(***************************************************************************)
NonDecreasing(history) ==
  \A i \in 1..(Len(history) - 1) : history[i] <= history[i + 1]

HCReplacesByBetterNeighbour ==
  (alg = "hc" /\ pc = "loop" /\ currentSolution' # currentSolution)
    => /\ currentFitness' > currentFitness
       /\ \E k \in 1..Len(computeNeighbourMoves(currentSolution, options.neighbourStep)) :
            currentSolution' =
              applyMove(currentSolution,
                        computeNeighbourMoves(currentSolution, options.neighbourStep)[k])
       /\ currentFitness' = evaluatePaletteSolution(options.primaryColor, currentSolution')

\* C1: during hill climbing the recorded fitness history never decreases
\* (in the loop and in the returned result), and the current palette is
\* replaced only by one of its neighbours whose fitness is strictly greater
\* than the current fitness.
C1_HillClimbingMonotone ==
  /\ [](alg = "hc" => /\ NonDecreasing(fitnessHistory)
                       /\ (result.returned => NonDecreasing(result.fitnessHistory)))
  /\ [][HCReplacesByBetterNeighbour]_vars

\* a finished climb that improved and then stalled
C1_Witness ==
  /\ alg = "hc" /\ pc = "done"
  /\ \E i \in 1..(Len(result.fitnessHistory) - 2) :
       /\ result.fitnessHistory[i] < result.fitnessHistory[i + 1]
       /\ result.fitnessHistory[i + 1] = result.fitnessHistory[i + 2]
  /\ result.solution # options.initialSolution


FlatHistory(rows) == UNION { Range(rows[g]) : g \in 1..Len(rows) }

\* C2: when simulated annealing or the genetic algorithm returns, the best
\* fitness it returns is at least every fitness recorded in the returned
\* fitness history (for the genetic algorithm every entry of every
\* generation's row).
C2_BestIsBest ==
  /\ (alg = "sa" /\ result.returned)
       => \A i \in 1..Len(result.fitnessHistory) :
            result.fitness >= result.fitnessHistory[i]
  /\ (alg = "ga" /\ result.returned)
       => \A f \in FlatHistory(result.fitnessHistory) : result.bestFitness >= f

\* an annealing run that ended in a state worse than the best it returns
C2_Witness ==
  /\ alg = "sa" /\ result.returned
  /\ result.iterations >= 1
  /\ result.fitnessHistory[Len(result.fitnessHistory)] < result.fitness

FiveColours(palette) == Len(palette) = 5

FiveColourInput ==
  CASE alg \in { "hc", "sa" } -> FiveColours(options.initialSolution)
    [] alg = "ga" -> \A i \in 1..Len(options.initialSolution) :
                       FiveColours(options.initialSolution[i])
    [] OTHER -> FALSE

\* C3: an optimiser given 5-colour input returns 5-colour palettes: the
\* solution of hill climbing and simulated annealing, and the best palette
\* and every palette of the returned population of the genetic algorithm.
C3_FiveInFiveOut ==
  (FiveColourInput /\ result.returned)
    => IF alg = "ga"
         THEN /\ FiveColours(result.bestPalette)
              /\ \A i \in 1..Len(result.population) : FiveColours(result.population[i])
         ELSE FiveColours(result.solution)

\* a genetic run on 5-colour palettes that bred at least one generation of
\* palettes not in the initial population
C3_Witness ==
  /\ alg = "ga" /\ result.returned /\ FiveColourInput
  /\ result.iterations >= 1
  /\ \E i \in 1..Len(result.population) :
       result.population[i] \notin Range(options.initialSolution)


InputPalettes ==
  CASE alg \in { "hc", "sa" } -> { options.initialSolution }
    [] alg = "ga" -> Range(options.initialSolution)
    [] OTHER -> {}

ReturnedPalettes ==
  IF alg = "ga" THEN Range(result.population) \cup { result.bestPalette }
  ELSE { result.solution }

ReturnedFitness == IF alg = "ga" THEN result.bestFitness ELSE result.fitness

FourOrSixColourInput ==
  /\ alg \in { "hc", "sa", "ga" }
  /\ InputPalettes # {}
  /\ \A palette \in InputPalettes : Len(palette) \in { 4, 6 }

\* C4: an optimiser given palettes of 4 or 6 colours never pads or truncates
\* them: whatever it returns has the length of an input palette, and it
\* reports no finite fitness.
C4_NeverPadsOrTruncates ==
  (FourOrSixColourInput /\ result.returned)
    => /\ \A palette \in ReturnedPalettes :
            \E given \in InputPalettes : Len(palette) = Len(given)
       /\ ~isFinite(ReturnedFitness)

StrictLocalOptimum(primaryColor, palette, step) ==
  LET fitness == evaluatePaletteSolution(primaryColor, palette)
      moves == computeNeighbourMoves(palette, step)
  IN /\ isFinite(fitness)
     /\ \A k \in 1..Len(moves) :
          ~(evaluatePaletteSolution(primaryColor, applyMove(palette, moves[k])) > fitness)

\* C5: hill climbing started on a strict local optimum with maxIterations
\* above patience returns iterations equal to patience and the initial
\* palette as the solution.
C5_StallReturnsPatience ==
  (/\ alg = "hc" /\ result.returned
   /\ Len(options.initialSolution) = 5
   /\ StrictLocalOptimum(options.primaryColor, options.initialSolution,
                         options.neighbourStep)
   /\ options.maxIterations > options.patience)
    => /\ result.iterations = options.patience
       /\ result.solution = options.initialSolution


\* C6: simulated annealing called with minTemperature above
\* initialTemperature makes no iteration: it returns iterations 0, a fitness
\* history and a temperature history of the initial entry only, and the
\* initial palette with its initial fitness, having evaluated that palette
\* alone.
C6_ColdStart ==
  (/\ alg = "sa" /\ result.returned
   /\ options.minTemperature > options.initialTemperature)
    => /\ result.iterations = 0
       /\ result.fitnessHistory =
            << evaluatePaletteSolution(options.primaryColor, options.initialSolution) >>
       /\ result.temperatureHistory = << options.initialTemperature >>
       /\ result.solution = options.initialSolution
       /\ result.fitness =
            evaluatePaletteSolution(options.primaryColor, options.initialSolution)
       /\ evals = 1

\* a cold start on a palette of finite fitness with iterations to spare
C6_Witness ==
  /\ alg = "sa" /\ result.returned
  /\ options.minTemperature > options.initialTemperature
  /\ options.maxIterations >= 1
  /\ isFinite(result.fitness)

Count(list, c) == Cardinality({ i \in 1..Len(list) : list[i] = c })

SameMultiset(a, b) ==
  /\ Len(a) = Len(b)
  /\ \A c \in Range(a) \cup Range(b) : Count(a, c) = Count(b, c)

FirstColourKept ==
  /\ bestPath # <<>> => bestPath[1] = options.colors[1]
  /\ newPath # <<>> => newPath[1] = options.colors[1]
  /\ result.returned => result.path[1] = options.colors[1]

\* C7 as stated: for every list of two or more colours the returned path is
\* a permutation of the deduplicated input set, and the initial path, every
\* mutated path and the returned path start with colors[0].
C7_PermutationOfUniqueColours ==
  (alg = "path" /\ Len(options.colors) >= 2)
    => /\ FirstColourKept
       /\ result.returned
            => /\ Range(result.path) = Range(options.colors)
               /\ Len(result.path) = Cardinality(Range(options.colors))

\* C7 amended: for every list of two or more colours the returned path is a
\* permutation of the input list, repeated colours kept as often as they
\* were given, and the initial path, every mutated path and the returned
\* path start with colors[0].
C7_PermutationOfInputList ==
  (alg = "path" /\ Len(options.colors) >= 2)
    => /\ FirstColourKept
       /\ result.returned => SameMultiset(result.path, options.colors)

\* a search over a list with a repeated colour that tried a swap and
\* returned another order than it was given
C7_Witness ==
  /\ alg = "path" /\ result.returned
  /\ Len(options.colors) > Cardinality(Range(options.colors))
  /\ newPath # <<>>
  /\ newPath # bestPath
  /\ result.path # options.colors

\* C8: given two or more colours of which fewer than two are unique, the
\* path optimiser builds a graph of one node, makes no search iteration and
\* no evaluation, and returns the list it was given with fitness Infinity.
C8_DegenerateInput ==
  (/\ alg = "path" /\ pc # "call"
   /\ Len(options.colors) >= 2
   /\ Cardinality(Range(options.colors)) < 2)
    => /\ pc = "done"
       /\ Cardinality(DOMAIN graph) = 1
       /\ iteration = 0 /\ evals = 0
       /\ bestPath = <<>> /\ newPath = <<>>
       /\ result = [returned |-> TRUE, path |-> options.colors, fitness |-> PosInf]

\* the call on ["#fff", "#fff"] has returned
C8_Witness ==
  /\ alg = "path" /\ result.returned
  /\ options.colors = << "#fff", "#fff" >>
  /\ options.iterations >= 1

SwappingOperations == { "one-point", "two-point", "block", "uniform" }

\* C9: before mutation the two offspring of 5-colour parents have 5 genes
\* each, all of them genes of the parents; under one-point, two-point, block
\* and uniform crossover the two genes at each position are the two genes
\* the parents have there, and under shuffle each offspring is a
\* permutation of its own parent.
C9_CrossoverClosure ==
  (alg = "cross" /\ result.returned)
    => LET parent1 == options.parent1
           parent2 == options.parent2
           offspring1 == result.offspring1
           offspring2 == result.offspring2
       IN /\ Len(offspring1) = 5 /\ Len(offspring2) = 5
          /\ Range(offspring1) \cup Range(offspring2)
               \subseteq Range(parent1) \cup Range(parent2)
          /\ options.crossoverOperation \in SwappingOperations
               => \A i \in 1..5 :
                    \/ offspring1[i] = parent1[i] /\ offspring2[i] = parent2[i]
                    \/ offspring1[i] = parent2[i] /\ offspring2[i] = parent1[i]
          /\ options.crossoverOperation = "shuffle"
               => /\ SameMultiset(offspring1, parent1)
                  /\ SameMultiset(offspring2, parent2)

\* a shuffle that reordered both offspring
C9_Witness ==
  /\ alg = "cross" /\ result.returned /\ result.crossed
  /\ options.crossoverOperation = "shuffle"
  /\ result.offspring1 # options.parent1
  /\ result.offspring2 # options.parent2

StructuralError ==
  CASE alg = "ga" -> Len(options.initialSolution) < 2
    [] alg = "path" -> Len(options.colors) < 2
    [] alg \in { "hc", "sa" } -> Len(options.initialSolution) # 5
    [] OTHER -> FALSE

\* C10: a call with a population of fewer than 2 palettes, a colour list of
\* fewer than 2 colours, or a hill climbing or annealing palette of a
\* length other than 5 fails at once: nothing is evaluated, no search state
\* is set up and nothing is returned.
C10_StructuralErrorsFailFirst ==
  (StructuralError /\ pc # "call")
    => /\ pc = "threw"
       /\ evals = 0
       /\ result = NoResult
       /\ currentSolution = <<>> /\ bestSolution = <<>>
       /\ fitnessHistory = <<>> /\ temperatureHistory = <<>>
       /\ population = <<>> /\ nextPopulationIndividuals = <<>>
       /\ graph = <<>> /\ bestPath = <<>> /\ newPath = <<>>
       /\ iteration = 0

\* hill climbing has refused a palette of 4 colours
C10_Witness ==
  /\ alg = "hc" /\ pc = "threw"
  /\ Len(options.initialSolution) = 4


\* the steps on which a search picks a candidate
HCSelects == alg = "hc" /\ pc = "loop" /\ currentSolution' # currentSolution

SASelectsCurrent == alg = "sa" /\ pc = "loop" /\ currentSolution' # currentSolution

SASelectsBest == alg = "sa" /\ pc = "loop" /\ bestSolution' # bestSolution

GAReplacesBest ==
  alg = "ga" /\ pc # "call" /\ bestOverallIndividual' # bestOverallIndividual

NonFiniteNeverSelected ==
  /\ HCSelects => isFinite(currentFitness')
  /\ SASelectsCurrent => isFinite(currentFitness')
  /\ SASelectsBest => isFinite(bestFitness')
  /\ GAReplacesBest => isFinite(bestOverallIndividual'.fitness)

\* a search that is under way does not fail
LoopNeverAborts == pc' = "threw" => pc = "call"

\* C11: a candidate of non-finite fitness is never selected (it never
\* becomes the current solution of hill climbing, the current or best
\* solution of simulated annealing, or the best-ever individual of the
\* genetic algorithm in place of another), and no search loop aborts on
\* one: once a search is past its entry checks it goes on to the next
\* iteration or generation.
C11_NonFiniteSkippedNotFatal ==
  [][NonFiniteNeverSelected /\ LoopNeverAborts]_vars


\* C12: hill climbing whose 5-colour initial palette scores a non-finite
\* fitness stops before the first iteration: it returns the initial
\* palette, fitness -Infinity, iterations 0 and the history [-Infinity],
\* and the initial palette is the only thing it has evaluated.
C12_InvalidStartAborts ==
  (/\ alg = "hc" /\ pc # "call"
   /\ Len(options.initialSolution) = 5
   /\ evaluatePaletteSolution(options.primaryColor, options.initialSolution) = NegInf)
    => /\ pc = "done"
       /\ result = [returned |-> TRUE,
                     solution |-> options.initialSolution,
                     fitness |-> NegInf,
                     iterations |-> 0,
                     fitnessHistory |-> << NegInf >>]
       /\ iteration = 0 /\ iterationsWithoutImprovement = 0
       /\ fitnessHistory = <<>>
       /\ evals = 1

\* the call on a palette with a colour that has no rgb, with iterations
\* and patience to spare, has returned
C12_Witness ==
  /\ alg = "hc" /\ result.returned
  /\ options.initialSolution = PaletteCorrupt
  /\ options.maxIterations >= 1 /\ options.patience >= 1


\* C13: the population of the genetic algorithm keeps the size of the
\* initial population: at the start of every generation, while the next
\* generation is filled (which never overshoots), and in the returned
\* population, whatever the elitism count and whether or not the elites
\* have a finite fitness.
C13_PopulationSizeFixed ==
  (alg = "ga" /\ pc \notin { "call", "threw" })
    => /\ Len(population) = Len(options.initialSolution)
       /\ Len(nextPopulationIndividuals) <= Len(options.initialSolution)
       /\ result.returned => Len(result.population) = Len(options.initialSolution)

\* a returned population whose elitism count exceeded its size while one of
\* its individuals had no finite fitness
C13_Witness ==
  /\ alg = "ga" /\ result.returned
  /\ options.elitismCount > Len(options.initialSolution)
  /\ result.iterations >= 1
  /\ \E i \in 1..Len(options.initialSolution) :
       ~isFinite(evaluatePaletteSolution(options.primaryColor,
                                         options.initialSolution[i]))


BestEverKept ==
  (alg = "ga" /\ pc # "call")
    => /\ bestOverallIndividual'.fitness >= bestOverallIndividual.fitness
       /\ bestOverallIndividual' # bestOverallIndividual
            => \E i \in 1..Len(population) :
                 /\ isFinite(population[i].fitness)
                 /\ population[i].fitness > bestOverallIndividual.fitness
                 /\ bestOverallIndividual' = population[i]
       /\ (result'.returned /\ pc' = "done")
            => /\ result'.bestPalette = bestOverallIndividual'.solution
               /\ result'.bestFitness = bestOverallIndividual'.fitness

\* C14: the best-ever individual of the genetic algorithm never regresses:
\* from one step to the next its fitness does not decrease, it is changed
\* only to an individual of the population whose finite fitness is strictly
\* greater, and it is what the call returns as bestPalette and bestFitness.
C14_BestEverNeverRegresses == [][BestEverKept]_vars

\* a run returns a best-ever palette that is better than everything in the
\* population it ends with
C14_Witness ==
  /\ alg = "ga" /\ result.returned
  /\ result.iterations >= 1
  /\ isFinite(result.bestFitness)
  /\ result.bestPalette \notin Range(result.population)
  /\ \A i \in 1..Len(population) : population[i].fitness < result.bestFitness


FiniteValues(values) == SelectSeq(values, isFinite)

\* the stopping condition on a population and the best-ever fitness
ThresholdMet(pop, bestEver) ==
  LET finite == FiniteValues(FitnessOf(pop))
  IN \/ Len(finite) > 0 /\ SumSeq(finite) >= options.thresholdFitness * Len(finite)
     \/ isFinite(bestEver) /\ 10 * bestEver >= 11 * options.thresholdFitness

\* the best-ever fitness once the population at hand is taken into account
BestEverWith(pop) ==
  LET finite == FiniteValues(FitnessOf(pop))
      above == { finite[k] : k \in 1..Len(finite) } \cup { bestOverallIndividual.fitness }
  IN CHOOSE f \in above : \A h \in above : f >= h

StopsAtThreshold ==
  /\ (alg = "ga" /\ pc = "loop" /\ pc' # "loop" /\ pc' # "done")
       => IF ThresholdMet(population, BestEverWith(population))
            THEN pc' = "exit" /\ population' = population
            ELSE pc' = "fill"
  /\ (alg = "ga" /\ pc' = "done" /\ pc # "done")
       => /\ result'.iterations = iteration
          /\ result'.population = [ i \in 1..Len(population) |-> population[i].solution ]
          /\ IF pc = "exit"
               THEN /\ ThresholdMet(population, bestOverallIndividual.fitness)
                    /\ iteration < options.maxIterations
                    /\ Len(fitnessHistory) = iteration + 1
               ELSE /\ iteration = options.maxIterations
                    /\ Len(fitnessHistory) = iteration

\* C15: the loop of the genetic algorithm stops at the first generation
\* whose finite fitness values average at least thresholdFitness or whose
\* best-ever fitness is at least 1.1 times thresholdFitness: it breeds no
\* further generation and returns that generation's index as iterations and
\* that generation as population; every generation that was bred from had
\* met neither condition, and without them the loop ends only when
\* maxIterations generations have been bred.
C15_StopsAtFirstThresholdGeneration ==
  /\ []((alg = "ga" /\ pc = "fill")
          => ~ThresholdMet(population, bestOverallIndividual.fitness))
  /\ [][StopsAtThreshold]_vars

\* a run that bred at least one generation and then stopped on a threshold
\* with generations to spare
C15_Witness ==
  /\ alg = "ga" /\ result.returned
  /\ result.iterations >= 1
  /\ result.iterations < options.maxIterations
  /\ LET last == FiniteValues(result.fitnessHistory[Len(result.fitnessHistory)])
     IN /\ Len(last) > 0
        /\ SumSeq(last) < options.thresholdFitness * Len(last)
        /\ 10 * result.bestFitness >= 11 * options.thresholdFitness


\* how many individuals elitism carries over from pop
EliteCount(pop) ==
  Min(Min(options.elitismCount, Len(pop)),
      Cardinality({ i \in 1..Len(pop) : isFinite(pop[i].fitness) }))

\* carried holds, palette and cached fitness untouched, EliteCount(pop)
\* individuals of pop, all of finite fitness and none below an individual of
\* pop that was left out
TopOfPopulation(carried, pop) ==
  /\ Len(carried) = EliteCount(pop)
  /\ \A k \in 1..Len(carried) : isFinite(carried[k].fitness)
  /\ \E f \in [1..Len(carried) -> 1..Len(pop)] :
       /\ \A k, l \in 1..Len(carried) : k # l => f[k] # f[l]
       /\ \A k \in 1..Len(carried) : pop[f[k]] = carried[k]
       /\ \A j \in 1..Len(pop) :
            (isFinite(pop[j].fitness) /\ \A k \in 1..Len(carried) : f[k] # j)
              => \A k \in 1..Len(carried) : carried[k].fitness >= pop[j].fitness

ElitesCarriedOver ==
  /\ (alg = "ga" /\ pc = "loop" /\ pc' = "fill")
       => TopOfPopulation(nextPopulationIndividuals', population)
  /\ (alg = "ga" /\ pc = "fill" /\ pc' = "fill")
       => /\ Len(nextPopulationIndividuals') >= Len(nextPopulationIndividuals)
          /\ SubSeq(nextPopulationIndividuals', 1, Len(nextPopulationIndividuals))
               = nextPopulationIndividuals
          /\ \A i \in 1..Len(population) :
               \E j \in 1..Len(population) : population'[j] = population[i]
  /\ (alg = "ga" /\ pc = "fill" /\ pc' = "loop")
       => population' = nextPopulationIndividuals

\* C16: in every generation of the genetic algorithm that breeds a
\* successor, the min(elitismCount, populationSize) individuals of highest
\* fitness, as far as their fitness is finite, head the next generation with
\* the same palette and the same cached fitness: offspring are only appended
\* behind them, and no individual of non-finite fitness is among them.
C16_ElitesCarriedUnchanged == [][ElitesCarriedOver]_vars

\* a second generation bred with elitismCount 2 from a generation of two
\* whose other individual had no finite fitness: one elite, at the head
C16_Witness ==
  /\ alg = "ga" /\ pc = "loop" /\ iteration >= 1
  /\ options.elitismCount >= 2
  /\ Len(fitnessHistory) = iteration
  /\ \E k \in 1..Len(fitnessHistory[iteration]) : ~isFinite(fitnessHistory[iteration][k])
  /\ \E k \in 1..Len(fitnessHistory[iteration]) :
       /\ isFinite(fitnessHistory[iteration][k])
       /\ population[1].fitness = fitnessHistory[iteration][k]


\* the roulette weight of the individual at position i of pop
WeightOf(pop, i) ==
  LET scores == RankScores(pop)
  IN scores[CHOOSE k \in 1..Len(pop) : scores[k][1] = i][2]

RankWeightsDecrease(pop) ==
  /\ \A i \in 1..Len(pop) :
       Cardinality({ k \in 1..Len(pop) : RankScores(pop)[k][1] = i }) = 1
  /\ \A i \in ValidIndices(pop) :
       /\ WeightOf(pop, i) > 0
       /\ \A j \in ValidIndices(pop) :
            /\ pop[i].fitness > pop[j].fitness => WeightOf(pop, i) > WeightOf(pop, j)
            /\ i # j => WeightOf(pop, i) # WeightOf(pop, j)
       /\ \A j \in (1..Len(pop)) \ ValidIndices(pop) :
            WeightOf(pop, j) < WeightOf(pop, i)
  /\ \A i, j \in (1..Len(pop)) \ ValidIndices(pop) : WeightOf(pop, i) = WeightOf(pop, j)

RoulettePicksValid(pop) ==
  LET picks == 0..(2 * TotalScore(pop) - 1)
  IN /\ \A pick \in picks : Roulette(pop, pick) \in ValidIndices(pop)
     /\ \A i \in ValidIndices(pop) : \E pick \in picks : Roulette(pop, pick) = i
     /\ \A parents \in SelectedParents(pop) :
          /\ parents[1] \in ValidIndices(pop)
          /\ parents[2] \notin ValidIndices(pop)
               => parents[2] = (parents[1] % Len(pop)) + 1

\* C17: when the population the genetic algorithm selects parents from has
\* at least two individuals of finite fitness, the roulette weights fall
\* strictly with the fitness rank (every such individual has a positive
\* weight, a fitter one a larger weight), the individuals of non-finite
\* fitness share a weight below all of those, every roulette pick is an
\* individual of finite fitness, and a parent of non-finite fitness is only
\* ever the wrap-around successor of a first parent picked twice.
C17_RankWeightsAndDirectPicks ==
  (alg = "ga" /\ pc = "fill" /\ Cardinality(ValidIndices(population)) >= 2)
    => RankWeightsDecrease(population) /\ RoulettePicksValid(population)

\* offspring bred from a population of two finite individuals and one
\* non-finite one, which the wrap-around can return as second parent
C17_Witness ==
  /\ alg = "ga" /\ pc = "fill"
  /\ Cardinality(ValidIndices(population)) >= 2
  /\ Cardinality(ValidIndices(population)) < Len(population)
  /\ Len(nextPopulationIndividuals) = Len(population)
  /\ \E parents \in SelectedParents(population) : parents[2] \notin ValidIndices(population)


DistinctPositions(pop) ==
  { d \in (1..Len(pop)) \X (1..Len(pop)) : d[1] # d[2] }

\* C18: whenever the genetic algorithm selects parents (its population has
\* at least two individuals), the selection yields a pair, every pair it
\* can yield names two different positions of the population, and with
\* fewer than two individuals of finite fitness every pair of different
\* positions can be the outcome.
C18_TwoDistinctParents ==
  (alg = "ga" /\ pc = "fill")
    => /\ Len(population) >= 2
       /\ SelectedParents(population) # {}
       /\ SelectedParents(population) \subseteq DistinctPositions(population)
       /\ Cardinality(ValidIndices(population)) < 2
            => SelectedParents(population) = DistinctPositions(population)

\* offspring bred from a population without a single finite fitness
C18_Witness ==
  /\ alg = "ga" /\ pc = "fill"
  /\ ValidIndices(population) = {}
  /\ Len(nextPopulationIndividuals) = Len(population)


\* a pass of the loop of simulated annealing in which a neighbour was drawn
SADrawsNeighbour == alg = "sa" /\ pc = "loop" /\ pc' = "loop"

NeighboursOf(solution) ==
  LET moves == computeNeighbourMovesSA(solution, options.neighbourStep)
  IN { applyMoveSA(solution, moves[k]) : k \in 1..Len(moves) }

AcceptanceRule ==
  SADrawsNeighbour =>
    /\ (isFinite(neighbourFitness') /\ neighbourFitness' > currentFitness) => acceptMove'
    /\ (neighbourFitness' = currentFitness /\ temperature > 0) => acceptMove'
    /\ ~isFinite(neighbourFitness') => ~acceptMove'
    /\ IF acceptMove'
         THEN /\ currentSolution' \in NeighboursOf(currentSolution)
              /\ currentFitness' = neighbourFitness'
              /\ currentFitness' =
                   evaluatePaletteSolution(options.primaryColor, currentSolution')
              /\ IF currentFitness' > bestFitness
                   THEN bestFitness' = currentFitness' /\ bestSolution' = currentSolution'
                   ELSE UNCHANGED << bestSolution, bestFitness >>
         ELSE UNCHANGED << currentSolution, currentFitness, bestSolution, bestFitness >>

\* C19: in every pass of simulated annealing that draws a neighbour, a
\* neighbour of finite fitness strictly above the current one is accepted; a
\* neighbour of equal fitness, for which exp(0 / temperature) = 1 is above
\* every draw, is accepted too, and one of non-finite fitness never; an
\* accepted neighbour becomes the current solution with its fitness, and
\* the best is replaced by it only when that fitness is strictly above
\* bestFitness; a rejected one leaves current and best as they were.  (For
\* a strictly worse neighbour the draw decides, and both outcomes occur.)
C19_AcceptanceRule == [][AcceptanceRule]_vars

\* a strictly worse neighbour was accepted: current fell below the best,
\* which stayed
C19_Witness ==
  /\ alg = "sa" /\ pc = "loop" /\ iteration >= 1
  /\ acceptMove
  /\ currentFitness = neighbourFitness
  /\ fitnessHistory[Len(fitnessHistory)] < fitnessHistory[Len(fitnessHistory) - 1]
  /\ bestFitness > currentFitness


\* initialTemperature * coolingRate^k, the rate being in thousandths
RECURSIVE Schedule(_)
Schedule(k) ==
  IF k = 0 THEN options.initialTemperature
  ELSE (Schedule(k - 1) * options.coolingRate) \div 1000

CooledTimes(value, k) == value = Schedule(k)

GeometricSchedule(history, iterations) ==
  /\ Len(history) = iterations + 1
  /\ \A k \in 0..iterations : CooledTimes(history[k + 1], k)

\* C20: in simulated annealing the temperature has been multiplied by
\* coolingRate once for every completed pass of the loop, whatever became
\* of the neighbour: entry k of temperatureHistory (from 0) is
\* initialTemperature * coolingRate^k, and temperatureHistory and
\* fitnessHistory have iterations + 1 entries each, during the walk and in
\* the returned result.
C20_CooledOncePerIteration ==
  /\ (alg = "sa" /\ pc \in { "loop", "exit" })
       => /\ GeometricSchedule(temperatureHistory, iteration)
          /\ Len(fitnessHistory) = iteration + 1
          /\ CooledTimes(temperature, iteration)
  /\ (alg = "sa" /\ result.returned)
       => /\ GeometricSchedule(result.temperatureHistory, result.iterations)
          /\ Len(result.fitnessHistory) = result.iterations + 1

\* the next step of a call of simulated annealing that has not ended: every
\* such step moves pc or counts an iteration, and one is always possible
SARuns ==
  /\ alg = "sa" /\ pc \in { "call", "loop", "exit" }
  /\ pc' \in { "loop", "exit", "done", "threw" }
  /\ iteration' \in { iteration, iteration + 1 }
  /\ pc' # pc \/ iteration' = iteration + 1

\* the call of simulated annealing, which runs on until it has ended
SpecSAFair == InitSA /\ [][NextSA]_vars /\ WF_<< pc, iteration >>(SARuns)

SAStopsWhenDue ==
  /\ (alg = "sa" /\ pc = "loop" /\ pc' = "loop")
       => /\ iteration < options.maxIterations
          /\ temperature > options.minTemperature
          /\ iteration' = iteration + 1
  /\ (alg = "sa" /\ pc = "loop"
         /\ (iteration >= options.maxIterations \/ temperature <= options.minTemperature))
       => pc' = "done" /\ result'.returned /\ result'.iterations = iteration
  /\ (alg = "sa" /\ pc = "loop"
         /\ computeNeighbourMovesSA(currentSolution, options.neighbourStep) = <<>>)
       => pc' \in { "exit", "done" } /\ iteration' = iteration
  /\ (alg = "sa" /\ pc = "exit")
       => pc' = "done" /\ result'.returned /\ result'.iterations = iteration

\* C21: simulated annealing always terminates: every call comes to an end;
\* the loop never passes maxIterations iterations, makes no pass once the
\* temperature is at or below minTemperature (the call then returns), and
\* a pass that finds no neighbour move ends the loop without an error and
\* without counting as an iteration.
C21_AnnealingTerminates ==
  /\ [](alg = "sa" => iteration <= options.maxIterations)
  /\ [][SAStopsWhenDue]_vars
  /\ <>(pc \in { "done", "threw" })

\* a walk stopped by the temperature with iterations to spare
C21_Witness ==
  /\ alg = "sa" /\ result.returned
  /\ result.iterations >= 1
  /\ result.iterations < options.maxIterations
  /\ temperature <= options.minTemperature


Channels == { "r", "g", "b" }

\* the positions in moves of the moves of one channel of one colour
MovesOf(moves, index, channel) ==
  { n \in 1..Len(moves) : moves[n].paletteIndex = index /\ moves[n].channel = channel }

\* a palette of five colours that all have their channels
WellFormed(palette) ==
  Len(palette) = 5 /\ \A i \in 1..5 : HasRgb(palette[i])

\* at most +step and -step per channel, +step unless the channel is at 255
\* and -step unless it is at 0; an emitted move changes the channel
MovesEmitted(palette, step) ==
  LET moves == computeNeighbourMoves(palette, step)
  IN /\ \A n \in 1..Len(moves) :
          /\ moves[n].paletteIndex \in 1..Len(palette)
          /\ moves[n].channel \in Channels
          /\ moves[n].change \in { step, -step }
          /\ clamp(palette[moves[n].paletteIndex][ChannelIndex(moves[n].channel)]
                     + moves[n].change, 0, 255)
               # palette[moves[n].paletteIndex][ChannelIndex(moves[n].channel)]
     /\ \A i \in 1..Len(palette), channel \in Channels :
          LET of == MovesOf(moves, i, channel)
              value == palette[i][ChannelIndex(channel)]
          IN /\ Cardinality(of) <= 2
             /\ \A n, m \in of : n # m => moves[n].change # moves[m].change
             /\ (\E n \in of : moves[n].change = step) <=> value < 255
             /\ (\E n \in of : moves[n].change = -step) <=> value > 0

\* every emitted move stays within 0..255 and every move that stays within
\* is emitted
MovesWithinRange(palette, step) ==
  LET moves == computeNeighbourMoves(palette, step)
  IN /\ \A n \in 1..Len(moves) :
          LET value == palette[moves[n].paletteIndex][ChannelIndex(moves[n].channel)]
          IN value + moves[n].change >= 0 /\ value + moves[n].change <= 255
     /\ \A i \in 1..Len(palette), channel \in Channels :
          LET of == MovesOf(moves, i, channel)
              value == palette[i][ChannelIndex(channel)]
          IN /\ Cardinality(of) <= 2
             /\ (\E n \in of : moves[n].change = step) <=> value + step <= 255
             /\ (\E n \in of : moves[n].change = -step) <=> value - step >= 0

\* C22 as stated: the neighbour generator emits for each colour and channel
\* at most the moves +step and -step and leaves out every move that would
\* leave 0..255, so that no emitted move needs clamping.
C22_MovesStayWithinRange ==
  (alg = "hc" /\ pc = "loop" /\ WellFormed(currentSolution))
    => MovesWithinRange(currentSolution, options.neighbourStep)

\* C22 amended: the neighbour generator emits for each colour and channel
\* at most the moves +step and -step; it leaves out +step only for a channel
\* at 255 and -step only for a channel at 0, so an emitted move may point
\* outside 0..255 and relies on the clamping done when it is applied.
C22_MovesUnlessAtBound ==
  (alg = "hc" /\ pc = "loop" /\ WellFormed(currentSolution))
    => MovesEmitted(currentSolution, options.neighbourStep)

\* the climb took a move that was clamped: a channel of the current
\* solution is off the initial one by less than the step
C22_Witness ==
  /\ alg = "hc" /\ pc = "loop" /\ iteration = 1
  /\ WellFormed(currentSolution)
  /\ \E i \in 1..5, k \in 1..3 :
       /\ currentSolution[i][k] # options.initialSolution[i][k]
       /\ Abs(currentSolution[i][k] - options.initialSolution[i][k]) < options.neighbourStep


\* after differs from before in the one channel the move names, which holds
\* the old value moved by the change and clamped
OneChannelMoved(before, after, move) ==
  /\ Len(after) = Len(before)
  /\ \A i \in 1..Len(before) :
       IF i = move.paletteIndex
         THEN \A k \in 1..3 :
                after[i][k] = IF k = ChannelIndex(move.channel)
                                THEN clamp(before[i][k] + move.change, 0, 255)
                                ELSE before[i][k]
         ELSE after[i] = before[i]

MovesApplied(palette, step) ==
  LET moves == computeNeighbourMoves(palette, step)
  IN \A n \in 1..Len(moves) : OneChannelMoved(palette, applyMove(palette, moves[n]), moves[n])

\* a step of the climb that takes a neighbour takes the outcome of one move
ClimbStepIsOneMove ==
  (alg = "hc" /\ pc = "loop" /\ currentSolution' # currentSolution)
    => LET moves == computeNeighbourMoves(currentSolution, options.neighbourStep)
       IN \E n \in 1..Len(moves) : OneChannelMoved(currentSolution, currentSolution', moves[n])

\* C23: applying a move yields a palette in which the one channel the move
\* names, of the colour at move.paletteIndex, holds clamp(old + change, 0,
\* 255) while the two other channels of that colour and the four other
\* colours are as before; the palette the move was applied to (the initial
\* palette of the call included) stays as it was.
C23_MoveChangesOneChannel ==
  /\ []((alg = "hc" /\ pc = "loop" /\ WellFormed(currentSolution))
          => MovesApplied(currentSolution, options.neighbourStep))
  /\ [][ClimbStepIsOneMove /\ options' = options]_vars

\* the climb took a move that needed no clamping
C23_Witness ==
  /\ alg = "hc" /\ pc = "loop" /\ iteration = 1
  /\ WellFormed(currentSolution)
  /\ \E i \in 1..5, k \in 1..3 :
       /\ Abs(currentSolution[i][k] - options.initialSolution[i][k]) = options.neighbourStep
       /\ \A j \in 1..5, l \in 1..3 :
            << j, l >> # << i, k >> => currentSolution[j][l] = options.initialSolution[j][l]


\* the finite fitness values of the neighbours of a palette
NeighbourValues(palette) ==
  LET moves == computeNeighbourMoves(palette, options.neighbourStep)
  IN { f \in { evaluatePaletteSolution(options.primaryColor, applyMove(palette, moves[n])) :
                 n \in 1..Len(moves) } : isFinite(f) }

\* a pass of the loop of the climb
HCPass == alg = "hc" /\ pc = "loop" /\ fitnessHistory' # fitnessHistory

SteepestAscent ==
  HCPass =>
    LET values == NeighbourValues(currentSolution)
        improving == \E f \in values : f > currentFitness
    IN IF improving
         THEN /\ currentSolution' # currentSolution
              /\ currentFitness' \in values
              /\ \A f \in values : currentFitness' >= f
              /\ currentFitness' =
                   evaluatePaletteSolution(options.primaryColor, currentSolution')
              /\ iterationsWithoutImprovement' = 0
         ELSE /\ UNCHANGED << currentSolution, currentFitness >>
              /\ iterationsWithoutImprovement' = iterationsWithoutImprovement + 1

\* C24: the climb is steepest-ascent: in every pass in which the current
\* solution changes, the new current fitness is the highest fitness among
\* the neighbours of finite fitness of the previous solution and is
\* strictly above the previous fitness; when no neighbour is strictly above
\* it (the best one ties or is worse) the solution is kept and the patience
\* counter goes up by one.
C24_SteepestAscent == [][SteepestAscent]_vars

\* the climb moved to its best neighbour although another neighbour was an
\* improvement too
C24_Witness ==
  /\ alg = "hc" /\ pc = "loop" /\ iteration = 1
  /\ WellFormed(options.initialSolution)
  /\ currentSolution # options.initialSolution
  /\ \E f \in NeighbourValues(options.initialSolution) :
       f > fitnessHistory[1] /\ f < currentFitness

\* a pass of the loop of the path optimiser
PathPass == alg = "path" /\ pc = "loop" /\ pc' = "loop"

PathOnlyImproves ==
  /\ PathPass =>
       /\ iteration < options.iterations
       /\ iteration' = iteration + 1
       /\ evals' = evals + 1
       /\ bestFitness' <= bestFitness
       /\ bestFitness' = calculatePathFitness(bestPath', graph)
       /\ IF bestPath' # bestPath \/ bestFitness' # bestFitness
            THEN /\ bestPath' = newPath'
                 /\ isFinite(bestFitness')
                 /\ bestFitness' < bestFitness
            ELSE UNCHANGED << bestPath, bestFitness >>
  /\ (alg = "path" /\ pc = "loop" /\ pc' # "loop")
       => /\ pc' = "done"
          /\ iteration = options.iterations
          /\ evals = options.iterations + 1
          /\ result'.path = bestPath
          /\ result'.fitness = bestFitness

\* C25: once findOptimalColorPath has a graph of at least two colours and
\* an initial path of finite fitness, its loop makes exactly `iterations`
\* passes, one mutated path evaluated in each, and leaves only then; the
\* best path is replaced only by the mutated path of a pass, and only when
\* that path's fitness is finite and strictly lower, so the best fitness
\* never rises and the returned fitness, which is the last best fitness, is
\* at most the fitness of the initial path.
C25_PathOnlyImproves ==
  /\ []((alg = "path" /\ pc = "loop") => iteration <= options.iterations)
  /\ [][PathOnlyImproves]_vars

\* a run of two passes that returned the path mutated in its last pass,
\* which therefore had replaced the best
C25_Witness ==
  /\ alg = "path" /\ result.returned
  /\ options.iterations >= 2 /\ iteration = options.iterations
  /\ Len(options.colors) >= 3
  /\ Cardinality(Range(options.colors)) = Len(options.colors)
  /\ result.path = newPath
  /\ isFinite(result.fitness)


\* the cached fitness of every individual is the evaluation of its palette
FitnessCurrent(individuals) ==
  \A i \in 1..Len(individuals) :
    individuals[i].fitness =
      evaluatePaletteSolution(options.primaryColor, individuals[i].solution)

\* C26: the cached fitness in the genetic algorithm is current: at the
\* start of every generation, while the next generation is filled and at
\* the return, the fitness stored with every individual of the population
\* (initial individuals, elites carried over, offspring after crossover and
\* mutation) is the evaluation of that individual's palette.
C26_CachedFitnessCurrent ==
  (alg = "ga" /\ pc \in { "loop", "fill", "exit", "done" })
    => /\ FitnessCurrent(population)
       /\ FitnessCurrent(nextPopulationIndividuals)
       /\ result.returned
            => result.population = [ i \in 1..Len(population) |-> population[i].solution ]

\* a returned second generation made of an elite and a mutated offspring
C26_Witness ==
  /\ alg = "ga" /\ result.returned /\ iteration >= 1
  /\ options.mutationProbability > 0
  /\ \E i \in 1..Len(population) :
       \E j \in 1..Len(options.initialSolution) :
         population[i].solution = options.initialSolution[j]
  /\ \E i \in 1..Len(population) :
       /\ isFinite(population[i].fitness)
       /\ \A j \in 1..Len(options.initialSolution) :
            population[i].solution # options.initialSolution[j]


\* every colour of the palette that has channels has them in 0..255
ChannelsInRange(palette) ==
  \A i \in 1..Len(palette) :
    HasRgb(palette[i]) => \A k \in 1..3 : palette[i][k] \in 0..255

\* the palettes the optimisers hold and return
HeldPalettesInRange ==
  /\ ChannelsInRange(currentSolution)
  /\ ChannelsInRange(bestSolution)
  /\ ChannelsInRange(bestOverallIndividual.solution)
  /\ \A i \in 1..Len(population) : ChannelsInRange(population[i].solution)
  /\ \A i \in 1..Len(nextPopulationIndividuals) :
       ChannelsInRange(nextPopulationIndividuals[i].solution)
  /\ (result.returned /\ alg \in { "hc", "sa" }) => ChannelsInRange(result.solution)
  /\ (result.returned /\ alg = "ga")
       => /\ ChannelsInRange(result.bestPalette)
          /\ \A i \in 1..Len(result.population) : ChannelsInRange(result.population[i])

\* the genes of the population that have channels
GenesOf(individuals) ==
  UNION { Range(individuals[i].solution) : i \in 1..Len(individuals) }
    \ { Hole, Undefined, NoRgb }

\* what one mutation does to a gene: the small adjustment moves no channel
\* by more than mutationAmount, the reset changes at most one channel
MutationBounded(gene, draw, mutationAmount) ==
  LET mutated == MutateColor(gene, draw)
  IN /\ \A k \in 1..3 : mutated[k] \in 0..255
     /\ draw.small => \A k \in 1..3 : Abs(mutated[k] - gene[k]) <= mutationAmount
     /\ ~draw.small => Cardinality({ k \in 1..3 : mutated[k] # gene[k] }) <= 1

\* a gene of a new offspring is a gene of the population or one mutation of
\* such a gene
OffspringGenesFromParents ==
  (alg = "ga" /\ pc = "fill"
     /\ Len(nextPopulationIndividuals') > Len(nextPopulationIndividuals))
    => \A g \in GenesOf(nextPopulationIndividuals') :
         \/ g \in GenesOf(population) \cup GenesOf(nextPopulationIndividuals)
         \/ \E h \in GenesOf(population), d \in GeneDraws(options.mutationAmount) :
              g = MutateColor(h, d)

\* C27: starting from colours with channels in 0..255, every channel of
\* every colour of every palette an optimiser holds or returns is in 0..255
\* after any moves and mutations; the small-adjustment mutation moves each
\* channel of the gene by at most mutationAmount and the random reset
\* changes at most one channel of the gene.
C27_ChannelsStayInRange ==
  /\ []HeldPalettesInRange
  /\ []((alg = "ga" /\ pc = "fill")
          => \A h \in GenesOf(population), d \in GeneDraws(options.mutationAmount) :
               MutationBounded(h, d, options.mutationAmount))
  /\ [][OffspringGenesFromParents /\ options' = options]_vars

\* an offspring holds a gene whose small adjustment was clamped
C27_Witness ==
  /\ alg = "ga" /\ pc = "fill"
  /\ \E g \in GenesOf(nextPopulationIndividuals), h \in GenesOf(population),
        d \in GeneDraws(options.mutationAmount) :
       /\ d.small /\ g = MutateColor(h, d) /\ g \notin GenesOf(population)
       /\ \E k \in 1..3 : h[k] + d.delta[k] \notin 0..255


\* the palette a returned result reports as its best
ReturnedPalette == IF alg = "ga" THEN result.bestPalette ELSE result.solution

\* C28: the fitness an optimiser reports belongs to the palette it returns:
\* on every return of hillClimbingOptimization, simulatedAnnealingOptimization
\* and geneticCrossoverOptimization (normal end, patience stop, threshold
\* stop, abort on an invalid initial fitness) the returned fitness is
\* evaluatePaletteSolution(primaryColor, returned palette).
C28_ReportedFitnessOfReturnedPalette ==
  (alg \in { "hc", "sa", "ga" } /\ result.returned)
    => ReturnedFitness = evaluatePaletteSolution(options.primaryColor, ReturnedPalette)

\* a genetic run that returns a best found after the first generation
C28_Witness ==
  /\ alg = "ga" /\ result.returned /\ iteration >= 1
  /\ isFinite(result.bestFitness)
  /\ \A j \in 1..Len(options.initialSolution) :
       result.bestPalette # DeepCopy(options.initialSolution[j])


\* once a pass has found no better neighbour, the palette, its fitness and
\* the count of stalled passes are never set back
StallIsFinal ==
  (alg = "hc" /\ pc = "loop" /\ iterationsWithoutImprovement >= 1)
    => /\ currentSolution' = currentSolution
       /\ currentFitness' = currentFitness
       /\ iterationsWithoutImprovement' >= iterationsWithoutImprovement

\* the climb goes on below `limit` stalled passes, breaks at `limit` of them
\* and returns with fewer only when the budget is used up
EndsAfterStalls(limit) ==
  alg = "hc"
    => /\ (pc = "loop" /\ iterationsWithoutImprovement >= 1)
            => iterationsWithoutImprovement < limit
       /\ pc = "exit" => iterationsWithoutImprovement = limit
       /\ (pc = "done" /\ iterationsWithoutImprovement >= 1)
            => \/ iterationsWithoutImprovement = limit
               \/ /\ iterationsWithoutImprovement < limit
                  /\ iteration = options.maxIterations

\* C29 as stated: after the first pass of hillClimbingOptimization in which
\* no neighbour is strictly better, the current solution and fitness never
\* change and the patience counter is never reset; the run ends after
\* exactly `patience` consecutive stalled passes, or earlier only because
\* maxIterations is reached.
C29_EndsAfterPatienceStalls ==
  /\ [][StallIsFinal /\ options' = options]_vars
  /\ []EndsAfterStalls(options.patience)

\* C29: after the first pass of hillClimbingOptimization in which no
\* neighbour is strictly better, the current solution and fitness never
\* change and the patience counter is never reset; the run ends after
\* exactly max(patience, 1) consecutive stalled passes (the limit is tested
\* only after a stalled pass has been counted), or earlier only because
\* maxIterations is reached.
C29_EndsAfterPatienceOrOneStall ==
  /\ [][StallIsFinal /\ options' = options]_vars
  /\ []EndsAfterStalls(Max(options.patience, 1))

\* a climb that improved once, then stalled twice and stopped on patience 2
\* with budget left
C29_Witness ==
  /\ alg = "hc" /\ result.returned
  /\ options.patience = 2 /\ iterationsWithoutImprovement = 2
  /\ iteration < options.maxIterations
  /\ currentSolution # DeepCopy(options.initialSolution)


\* the array the caller passed in, as it was at the call
PassedIn == IF alg = "path" THEN options.colors ELSE options.initialSolution

====
